---- MODULE Spec2Model ----
(***************************************************************************)
(* Elevator analytics core: interval reconstruction and uptime metrics     *)
(* (services/uptime.py), data coverage (services/data_coverage.py), the    *)
(* door-cycle tracker (tools/door_cycles.py), the date-range validator     *)
(* (services/timezone.py) and the uptime calculator tool                   *)
(* (src/tools/uptime_calculator.py).                                       *)
(*                                                                         *)
(* Time.  An epoch timestamp is an integer number of milliseconds.  A      *)
(* timezone-aware datetime is a record [date, tod]: the local calendar day *)
(* and the milliseconds since local midnight.  The installation timezone   *)
(* is taken to be UTC, without daylight-saving changes.                    *)
(*                                                                         *)
(* Numbers.  Python floats (minutes, seconds, percentages) are modelled as *)
(* exact fractions [num, den] in lowest terms; floating-point rounding is  *)
(* not modelled.                                                           *)
(***************************************************************************)
EXTENDS Integers, Sequences, FiniteSets, TLC

VARIABLES
    \* UptimeService.build_intervals / calculate_metrics
    events,         \* argument: the CarModeChanged events of one machine
    start_time,     \* argument: window start (datetime)
    end_time,       \* argument: window end (datetime)
    sorted_events,  \* local of build_intervals
    intervals,      \* result of build_intervals
    metrics,        \* result of calculate_metrics
    daily_data,     \* result of calculate_daily_availability
    pc,             \* position of the caller
    \* DoorCyclesTool._calculate_cycles_and_timings
    door_events,    \* argument: the door events, sorted by timestamp
    grouped_events, \* local: the events of each (MachineId, Side, Deck)
    cycle_counts,   \* result: completed cycles per elevator, door and day
    reversal_counts,\* result: reversals per elevator, door and day
    timing_data,    \* local: the duration samples of each door
    timing_stats,   \* result: statistics and sample counts of each door
    door_pc,        \* position of the caller
    \* TimezoneService.validate_date_range
    current_local,  \* the current time in the installation's timezone
    date_validation,\* result of validate_date_range
    validate_pc,    \* position of the caller
    \* the event store (CosmosService)
    all_machine_ids,\* what get_all_machine_ids returns
    stored_events,  \* the CarModeChanged events of the installation
    cosmos_calls,   \* the queries made so far
    \* UptimeService.get_uptime_metrics and
    \* DataCoverageService._analyze_car_mode_coverage
    machine_id,     \* argument: optional machine filter
    target_machine_ids, \* local
    events_by_machine,  \* local
    machine_metrics,    \* local, then part of the result
    totals,         \* locals total_uptime, total_downtime, total_duration,
                    \* machines_with_data, machines_without_data
    result,         \* what get_uptime_metrics returns or raises
    car_mode_coverage,  \* what _analyze_car_mode_coverage returns
    data_gaps,      \* what _identify_data_gaps returns
    service_pc,     \* position within get_uptime_metrics
    \* DataCoverageService.analyze_coverage and its two tasks
    stored_door_events, \* the store: the Door events of the installation
    car_task,       \* position of the _analyze_car_mode_coverage task
    door_task,      \* position of the _analyze_door_coverage task
    car_events_found,   \* local of the car-mode task: the events queried
    door_events_found,  \* local of the door task: the events queried
    task_errors,    \* the tasks that caught and logged an exception
    door_coverage,  \* what _analyze_door_coverage returns
    coverage_report,\* the DataCoverageReport
    coverage_pc,    \* position within analyze_coverage
    \* compute_uptime_downtime of src/tools/uptime_calculator.py, for one machine
    events_for_machine, \* local: the machine's events
    prior_mode,     \* local: the mode in effect before the window, "" if none
    start_ms,       \* local: window start, epoch milliseconds
    end_ms,         \* local: window end, epoch milliseconds
    calculator_intervals, \* what _build_intervals returns
    machine_result, \* the machine's entry of machine_results
    calculator_pc   \* position of the loop body

uptime_vars ==
    <<events, start_time, end_time, sorted_events, intervals, metrics, daily_data, pc>>

door_vars ==
    <<door_events, grouped_events, cycle_counts, reversal_counts, timing_data,
      timing_stats, door_pc>>

validator_vars == <<current_local, date_validation, validate_pc>>

store_vars == <<all_machine_ids, stored_events, cosmos_calls>>

service_vars ==
    <<store_vars, machine_id, target_machine_ids, events_by_machine,
      machine_metrics, totals, result, car_mode_coverage, data_gaps, service_pc>>

coverage_vars ==
    <<stored_door_events, car_task, door_task, car_events_found,
      door_events_found, task_errors, door_coverage, coverage_report, coverage_pc>>

calculator_vars ==
    <<events_for_machine, prior_mode, start_ms, end_ms, calculator_intervals,
      machine_result, calculator_pc>>

vars ==
    <<uptime_vars, door_vars, validator_vars, service_vars, coverage_vars,
      calculator_vars>>

\* Python's None, and a value that is present, for optional values
None == <<>>
Some(x) == <<x>>
Val(o) == o[1]

\* the parts of the state a specification does not use stay as they are here
BuildIdle ==
    /\ events = <<>>
    /\ sorted_events = <<>>
    /\ intervals = <<>>
    /\ metrics = None
    /\ daily_data = <<>>
    /\ pc = "idle"

UptimeIdle ==
    /\ BuildIdle
    /\ start_time = None
    /\ end_time = None

DoorIdle ==
    /\ door_events = <<>>
    /\ grouped_events = <<>>
    /\ cycle_counts = <<>>
    /\ reversal_counts = <<>>
    /\ timing_data = <<>>
    /\ timing_stats = <<>>
    /\ door_pc = "idle"

ValidatorIdle ==
    /\ current_local = None
    /\ date_validation = None
    /\ validate_pc = "idle"

CoverageIdle ==
    /\ stored_door_events = <<>>
    /\ car_task = "idle"
    /\ door_task = "idle"
    /\ car_events_found = <<>>
    /\ door_events_found = <<>>
    /\ task_errors = {}
    /\ door_coverage = None
    /\ coverage_report = None
    /\ coverage_pc = "idle"

CalculatorIdle ==
    /\ events_for_machine = <<>>
    /\ prior_mode = ""
    /\ start_ms = 0
    /\ end_ms = 0
    /\ calculator_intervals = <<>>
    /\ machine_result = None
    /\ calculator_pc = "idle"

ServiceIdle ==
    /\ all_machine_ids = <<>>
    /\ stored_events = <<>>
    /\ cosmos_calls = <<>>
    /\ machine_id = None
    /\ target_machine_ids = <<>>
    /\ events_by_machine = <<>>
    /\ machine_metrics = <<>>
    /\ totals = None
    /\ result = None
    /\ car_mode_coverage = None
    /\ data_gaps = <<>>
    /\ service_pc = "idle"

-----------------------------------------------------------------------------
\* Bounds of the model

\* longest event list handed to build_intervals
MaxEvents == 3
\* event timestamps lie on the grid 1*TickMs .. MaxTick*TickMs
MaxTick == 3
\* longest list of door events of one door, all with a timestamp
MaxDoorEvents == 7

-----------------------------------------------------------------------------
\* Units

MsPerSecond == 1000
SecondsPerMinute == 60
MsPerMinute == MsPerSecond * SecondsPerMinute
MsPerDay == 86400000
\* the grid step of the timestamps the model draws: half a day
TickMs == MsPerDay \div 2

-----------------------------------------------------------------------------
\* Exact fractions standing for Python floats

RECURSIVE Gcd(_, _)
Gcd(a, b) == IF b = 0 THEN a ELSE Gcd(b, a % b)

Abs(x) == IF x < 0 THEN -x ELSE x

\* what a division by zero leaves: Python raises ZeroDivisionError for it, and
\* every further operation on it gives it again
ZeroDivisionError == [num |-> 0, den |-> 0]

\* n / d in lowest terms, d > 0
Frac(n, d) ==
    LET s == IF d < 0 THEN -1 ELSE 1
        g == Gcd(Abs(n), Abs(d))
    IN  IF d = 0 THEN ZeroDivisionError
        ELSE IF n = 0 THEN [num |-> 0, den |-> 1]
        ELSE [num |-> (s * n) \div g, den |-> (s * d) \div g]

Zero == Frac(0, 1)
FracAdd(x, y) == Frac(x.num * y.den + y.num * x.den, x.den * y.den)
FracMul(x, y) == Frac(x.num * y.num, x.den * y.den)
FracDiv(x, y) == Frac(x.num * y.den, x.den * y.num)
FracLess(x, y) == x.num * y.den < y.num * x.den
FracLeq(x, y) == x.num * y.den <= y.num * x.den
Hundred == Frac(100, 1)

-----------------------------------------------------------------------------
\* Datetimes

DateTime(d, t) == [date |-> d, tod |-> t]

\* comparison of two aware datetimes (by instant)
DtLess(a, b) == a.date < b.date \/ (a.date = b.date /\ a.tod < b.tod)
DtLeq(a, b) == a = b \/ DtLess(a, b)
\* Python's max(a, b) and min(a, b): the first argument wins a tie
DtMax(a, b) == IF DtLess(a, b) THEN b ELSE a
DtMin(a, b) == IF DtLess(b, a) THEN b ELSE a

\* (b - a) as a timedelta, in milliseconds
DtDiffMs(b, a) == (b.date - a.date) * MsPerDay + (b.tod - a.tod)

\* TimezoneService.epoch_to_local_datetime
epoch_to_local_datetime(epoch_ms) ==
    DateTime(epoch_ms \div MsPerDay, epoch_ms % MsPerDay)

\* TimezoneService.local_datetime_to_epoch
local_datetime_to_epoch(dt) == dt.date * MsPerDay + dt.tod

-----------------------------------------------------------------------------
\* Status classifier

UPTIME_MODES ==
    {"ANS", "ATT", "CHC", "CTL", "DCP", "DEF", "DHB", "DTC", "DTO",
     "EFO", "EFS", "EHS", "EPC", "EPR", "EPW", "IDL", "INI", "INS",
     "ISC", "LNS", "NOR", "PKS", "PRK", "RCY", "REC", "SRO", "STP"}

DOWNTIME_MODES == {"COR", "DBF", "DLF", "ESB", "HAD", "HBP", "NAV"}

get_mode_status(mode_name) ==
    IF mode_name \in UPTIME_MODES THEN "uptime"
    ELSE IF mode_name \in DOWNTIME_MODES THEN "downtime"
    ELSE "unknown"

-----------------------------------------------------------------------------
\* Interval reconstruction: UptimeService.build_intervals

\* the machine_id argument of build_intervals and calculate_metrics
MachineIdArg == "Elevator_1"
InstallationIdArg == "test_installation"

ModeInterval(st, en, mode, mid, status) ==
    [start_time |-> st, end_time |-> en, mode_name |-> mode,
     machine_id |-> mid, status |-> status]

\* ModeInterval.duration_minutes: total_seconds() / 60
duration_minutes(interval) ==
    Frac(DtDiffMs(interval.end_time, interval.start_time), MsPerMinute)

\* sorted(events, key=Timestamp) is stable: an event goes after every event
\* already placed whose timestamp is not larger
RECURSIVE InsertByTimestamp(_, _)
InsertByTimestamp(s, e) ==
    IF s = <<>> THEN <<e>>
    ELSE IF s[Len(s)].Timestamp <= e.Timestamp THEN Append(s, e)
    ELSE Append(InsertByTimestamp(SubSeq(s, 1, Len(s) - 1), e), s[Len(s)])

\* a variant that takes the events in the order supplied
SortByTimestamp_AsSupplied(s) == s

RECURSIVE SortByTimestamp(_)
SortByTimestamp(s) ==
    IF s = <<>> THEN <<>>
    ELSE InsertByTimestamp(SortByTimestamp(SubSeq(s, 1, Len(s) - 1)), s[Len(s)])

\* a variant that forgets to clip the interval start to the window
IntervalStart_Unclipped(event_time, st) == event_time

\* interval_start = max(event_time, start_time)
IntervalStart(event_time, st) == DtMax(event_time, st)

\* a variant that ends every interval at the window end
IntervalEnd_AlwaysWindowEnd(se, i, en) == en

\* a variant that looks two events ahead for the end of an interval
IntervalEnd_SkipsOne(se, i, en) ==
    IF i + 2 <= Len(se)
    THEN DtMin(epoch_to_local_datetime(se[i + 2].Timestamp), en)
    ELSE en

\* interval_end: the next event's time clipped to end_time, or end_time for
\* the last event
IntervalEnd(se, i, en) ==
    IF i + 1 <= Len(se)
    THEN DtMin(epoch_to_local_datetime(se[i + 1].Timestamp), en)
    ELSE en

\* the for loop of build_intervals, from index i on
RECURSIVE BuildLoop(_, _, _, _, _)
BuildLoop(se, i, st, en, mid) ==
    IF i > Len(se) THEN <<>>
    ELSE LET event_time == epoch_to_local_datetime(se[i].Timestamp)
             mode_name == se[i].ModeName
             interval_start == IntervalStart(event_time, st)
             interval_end == IntervalEnd(se, i, en)
             rest == BuildLoop(se, i + 1, st, en, mid)
         IN  IF DtLess(interval_start, interval_end)
             THEN <<ModeInterval(interval_start, interval_end, mode_name, mid,
                                 get_mode_status(mode_name))>> \o rest
             ELSE rest

build_intervals(evs, st, en, mid) ==
    IF evs = <<>> THEN <<>>
    ELSE BuildLoop(SortByTimestamp(evs), 1, st, en, mid)

-----------------------------------------------------------------------------
\* Metrics aggregation: UptimeService.calculate_metrics

\* the minutes of the intervals ivs[1..n] whose status is in statuses
RECURSIVE SumMinutes(_, _, _)
SumMinutes(ivs, n, statuses) ==
    IF n = 0 THEN Zero
    ELSE LET before == SumMinutes(ivs, n - 1, statuses)
         IN  IF ivs[n].status \in statuses
             THEN FracAdd(before, duration_minutes(ivs[n]))
             ELSE before

\* variant: the total is not looked at
Percentage_Unguarded(share, total) == FracMul(FracDiv(share, total), Hundred)

\* share / total * 100, 0 when the total is not positive
Percentage(share, total) ==
    IF FracLess(Zero, total) THEN FracMul(FracDiv(share, total), Hundred)
    ELSE Zero

AllStatuses == {"uptime", "downtime", "unknown"}

\* a variant whose total leaves the unknown minutes out
calculate_metrics_NoUnknown(ivs, mid, installation_id) ==
    LET uptime_minutes == SumMinutes(ivs, Len(ivs), {"uptime"})
        downtime_minutes == SumMinutes(ivs, Len(ivs), {"downtime"})
        unknown_minutes == SumMinutes(ivs, Len(ivs), AllStatuses \ {"uptime", "downtime"})
        total_minutes == FracAdd(uptime_minutes, downtime_minutes)
    IN  [machine_id |-> mid,
         installation_id |-> installation_id,
         uptime_minutes |-> uptime_minutes,
         downtime_minutes |-> downtime_minutes,
         unknown_minutes |-> unknown_minutes,
         total_minutes |-> total_minutes,
         uptime_percentage |-> Percentage(uptime_minutes, total_minutes),
         downtime_percentage |-> Percentage(downtime_minutes, total_minutes),
         intervals |-> ivs]

calculate_metrics(ivs, mid, installation_id) ==
    LET uptime_minutes == SumMinutes(ivs, Len(ivs), {"uptime"})
        downtime_minutes == SumMinutes(ivs, Len(ivs), {"downtime"})
        unknown_minutes == SumMinutes(ivs, Len(ivs), AllStatuses \ {"uptime", "downtime"})
        total_minutes ==
            FracAdd(FracAdd(uptime_minutes, downtime_minutes), unknown_minutes)
    IN  [machine_id |-> mid,
         installation_id |-> installation_id,
         uptime_minutes |-> uptime_minutes,
         downtime_minutes |-> downtime_minutes,
         unknown_minutes |-> unknown_minutes,
         total_minutes |-> total_minutes,
         uptime_percentage |-> Percentage(uptime_minutes, total_minutes),
         downtime_percentage |-> Percentage(downtime_minutes, total_minutes),
         intervals |-> ivs]

-----------------------------------------------------------------------------
\* The inputs the model draws

\* one mode of each class
ModeNames == {"NOR", "COR", "XYZ"}

EventTimestamps == {k * TickMs : k \in 1..MaxTick}

CarModeEvents == [Timestamp : EventTimestamps, ModeName : ModeNames]

SeqsUpTo(S, n) == UNION {[1..k -> S] : k \in 0..n}

\* window bounds: from one tick before the first event to one after the last
WindowTimes == {epoch_to_local_datetime(k * TickMs) : k \in 0..(MaxTick + 1)}

-----------------------------------------------------------------------------
\* A caller that builds the intervals of one machine and aggregates them

Init ==
    /\ events \in SeqsUpTo(CarModeEvents, MaxEvents)
    /\ start_time \in WindowTimes
    /\ end_time \in WindowTimes
    /\ sorted_events = <<>>
    /\ intervals = <<>>
    /\ metrics = None
    /\ daily_data = <<>>
    /\ pc = "start"
    /\ DoorIdle
    /\ ValidatorIdle
    /\ ServiceIdle
    /\ CoverageIdle
    /\ CalculatorIdle

BuildIntervals ==
    /\ pc = "start"
    /\ sorted_events' = IF events = <<>> THEN <<>> ELSE SortByTimestamp(events)
    /\ intervals' = build_intervals(events, start_time, end_time, MachineIdArg)
    /\ pc' = "built"
    /\ UNCHANGED <<events, start_time, end_time, metrics, daily_data>>
    /\ UNCHANGED <<door_vars, validator_vars, service_vars, coverage_vars, calculator_vars>>

CalculateMetrics ==
    /\ pc = "built"
    /\ metrics' = calculate_metrics(intervals, MachineIdArg, InstallationIdArg)
    /\ pc' = "done"
    /\ UNCHANGED <<events, start_time, end_time, sorted_events, intervals, daily_data>>
    /\ UNCHANGED <<door_vars, validator_vars, service_vars, coverage_vars, calculator_vars>>

\* the last second of a day, "T23:59:59", as a time of day
DayEndTod == MsPerDay - MsPerSecond

\* variant: an overlapping interval counts with its whole duration
OverlapMinutes_WholeInterval(interval, day_start_dt, day_end_dt) ==
    IF DtLess(DtMax(interval.start_time, day_start_dt),
              DtMin(interval.end_time, day_end_dt))
    THEN Some(duration_minutes(interval))
    ELSE None

\* the minutes one interval adds to a day, None when they do not overlap
OverlapMinutes(interval, day_start_dt, day_end_dt) ==
    LET overlap_start == DtMax(interval.start_time, day_start_dt)
        overlap_end == DtMin(interval.end_time, day_end_dt)
    IN  IF DtLess(overlap_start, overlap_end)
        THEN Some(Frac(DtDiffMs(overlap_end, overlap_start), MsPerMinute))
        ELSE None

\* the inner loop: actual_minutes over the first n intervals
RECURSIVE ActualMinutes(_, _, _, _)
ActualMinutes(ivs, n, day_start_dt, day_end_dt) ==
    IF n = 0 THEN Zero
    ELSE LET before == ActualMinutes(ivs, n - 1, day_start_dt, day_end_dt)
             o == OverlapMinutes(ivs[n], day_start_dt, day_end_dt)
         IN  IF o # None THEN FracAdd(before, Val(o)) ELSE before

\* one iteration of "while current_date <= end_date"
DailyEntry(ivs, current_date, st, en) ==
    LET day_start_dt == DtMax(DateTime(current_date, 0), st)
        day_end_dt == DtMin(DateTime(current_date, DayEndTod), en)
        expected_minutes == Frac(DtDiffMs(day_end_dt, day_start_dt), MsPerMinute)
        expected_hours == FracDiv(expected_minutes, Frac(SecondsPerMinute, 1))
        actual_minutes == ActualMinutes(ivs, Len(ivs), day_start_dt, day_end_dt)
        actual_hours == FracDiv(actual_minutes, Frac(SecondsPerMinute, 1))
    IN  [date |-> current_date,
         expected_hours |-> expected_hours,
         actual_hours |-> actual_hours,
         availability_percentage |->
             IF FracLess(Zero, expected_hours)
             THEN FracMul(FracDiv(actual_hours, expected_hours), Hundred)
             ELSE Zero,
         has_data |->
             \E i \in 1..Len(ivs) :
                 OverlapMinutes(ivs[i], day_start_dt, day_end_dt) # None]

\* UptimeService.calculate_daily_availability
calculate_daily_availability(ivs, st, en) ==
    [k \in 1..(IF en.date >= st.date THEN en.date - st.date + 1 ELSE 0) |->
        DailyEntry(ivs, st.date + k - 1, st, en)]

CalculateDailyAvailability ==
    /\ pc = "done"
    /\ daily_data' = calculate_daily_availability(intervals, start_time, end_time)
    /\ pc' = "daily"
    /\ UNCHANGED <<events, start_time, end_time, sorted_events, intervals, metrics>>
    /\ UNCHANGED <<door_vars, validator_vars, service_vars, coverage_vars, calculator_vars>>

Next == BuildIntervals \/ CalculateMetrics \/ CalculateDailyAvailability

Spec == Init /\ [][Next]_vars

\* a caller of build_intervals alone
BuildSpec == Init /\ [][BuildIntervals]_vars

-----------------------------------------------------------------------------
\* Properties of build_intervals and calculate_metrics

\* the sum of the durations of a list of intervals, in minutes
RECURSIVE TotalDuration(_)
TotalDuration(ivs) ==
    IF ivs = <<>> THEN Zero
    ELSE FracAdd(duration_minutes(Head(ivs)), TotalDuration(Tail(ivs)))

\* the minutes from datetime a to datetime b
MinutesBetween(a, b) == Frac(DtDiffMs(b, a), MsPerMinute)

\* each interval ends where the next one starts
Contiguous(ivs) ==
    \A i \in 1..(Len(ivs) - 1) : ivs[i].end_time = ivs[i + 1].start_time

\* the time of the earliest event of a non-empty list
EarliestEventTime(evs) ==
    LET ts == {evs[i].Timestamp : i \in 1..Len(evs)}
    IN  epoch_to_local_datetime(CHOOSE t \in ts : \A u \in ts : t <= u)

Built == pc \in {"built", "done"}

IsPermutation(s, t) ==
    /\ Len(s) = Len(t)
    /\ \A e \in CarModeEvents :
           Cardinality({i \in 1..Len(s) : s[i] = e})
               = Cardinality({i \in 1..Len(t) : t[i] = e})

\* the interval the claim gives event i of the sorted list se
ClaimedInterval(se, i) ==
    LET t == epoch_to_local_datetime(se[i].Timestamp)
        from == IF DtLess(t, start_time) THEN start_time ELSE t
        next == IF i < Len(se)
                THEN epoch_to_local_datetime(se[i + 1].Timestamp) ELSE end_time
        to == IF DtLess(end_time, next) THEN end_time ELSE next
    IN  [start_time |-> from, end_time |-> to, mode_name |-> se[i].ModeName,
         machine_id |-> MachineIdArg,
         status |-> IF se[i].ModeName \in UPTIME_MODES THEN "uptime"
                    ELSE IF se[i].ModeName \in DOWNTIME_MODES THEN "downtime"
                    ELSE "unknown"]

NonEmptyInterval(iv) == DtLess(iv.start_time, iv.end_time)

\* C2: the events are sorted by timestamp; the result holds, in that order,
\* the interval [max(time[i], start), min(time[i+1], end)) of every event i
\* (to end for the last event) that is not empty, with event i's mode and its
\* classification; nothing is merged.
C2_OneIntervalPerEvent ==
    (Built /\ events # <<>>) =>
        /\ IsPermutation(sorted_events, events)
        /\ \A i \in 1..(Len(sorted_events) - 1) :
               sorted_events[i].Timestamp <= sorted_events[i + 1].Timestamp
        /\ intervals =
               SelectSeq([i \in 1..Len(sorted_events)
                              |-> ClaimedInterval(sorted_events, i)],
                         NonEmptyInterval)

\* unsorted input, and two consecutive events of the same mode kept as two
\* intervals
C2_Witness ==
    /\ Built
    /\ Len(events) = 3
    /\ events[1].Timestamp > events[2].Timestamp
    /\ Len(intervals) = 3
    /\ intervals[1].mode_name = intervals[2].mode_name
    /\ intervals[2].mode_name # intervals[3].mode_name

\* C3: with no prior status, every interval has start < end and lies in the
\* window, each ends where the next starts, and together they cover exactly
\* [max(earliest event time, start_time), end_time): nothing when that is
\* empty, and never the time before the first event.
C3_CoversFromFirstEvent ==
    (Built /\ events # <<>>) =>
        LET from == DtMax(EarliestEventTime(events), start_time)
            n == Len(intervals)
        IN  /\ \A i \in 1..n :
                   /\ DtLess(intervals[i].start_time, intervals[i].end_time)
                   /\ DtLeq(start_time, intervals[i].start_time)
                   /\ DtLeq(intervals[i].end_time, end_time)
                   /\ DtLeq(EarliestEventTime(events), intervals[i].start_time)
            /\ \A i \in 1..(n - 1) :
                   intervals[i].end_time = intervals[i + 1].start_time
            /\ IF DtLess(from, end_time)
               THEN /\ n >= 1
                    /\ intervals[1].start_time = from
                    /\ intervals[n].end_time = end_time
               ELSE n = 0

\* the first event lies strictly inside the window: the time before it is in
\* no interval
C3_Witness ==
    /\ Built
    /\ Len(intervals) >= 2
    /\ DtLess(start_time, EarliestEventTime(events))
    /\ intervals[1].start_time = EarliestEventTime(events)

\* the minutes of the intervals of one classification, summed over a set of
\* indices
RECURSIVE MinutesOfIndices(_, _)
MinutesOfIndices(ivs, idx) ==
    IF idx = {} THEN Zero
    ELSE LET i == CHOOSE j \in idx : TRUE
         IN  FracAdd(MinutesBetween(ivs[i].start_time, ivs[i].end_time),
                     MinutesOfIndices(ivs, idx \ {i}))

MinutesOfStatus(ivs, status) ==
    MinutesOfIndices(ivs, {i \in 1..Len(ivs) : ivs[i].status = status})

-----------------------------------------------------------------------------
\* Door cycles: DoorCyclesTool._calculate_cycles_and_timings

cycle_sequence == <<"OPENING", "OPENED", "CLOSING", "CLOSED">>

\* str.upper() on the State values the model draws
Upper(s) ==
    CASE s = "Opening" -> "OPENING"
      [] s = "Opened" -> "OPENED"
      [] s = "Closing" -> "CLOSING"
      [] s = "Closed" -> "CLOSED"
      [] s = "Nudging" -> "NUDGING"
      [] OTHER -> s

\* str.capitalize() on the Side and Deck values the model draws
Capitalize(s) ==
    CASE s = "front" -> "Front"
      [] s = "rear" -> "Rear"
      [] s = "lower" -> "Lower"
      [] OTHER -> s

\* _get_day_from_timestamp: the local calendar day of a timestamp
get_day_from_timestamp(timestamp_ms) == epoch_to_local_datetime(timestamp_ms).date

\* (later - earlier) / 1000.0
Seconds(ms) == Frac(ms, MsPerSecond)

\* d[k] = v on a dict
Put(d, k, v) == [x \in (DOMAIN d) \cup {k} |-> IF x = k THEN v ELSE d[x]]

\* d[k] += 1 on a defaultdict(int)
Incr(d, k) == Put(d, k, IF k \in DOMAIN d THEN d[k] + 1 ELSE 1)

\* the entry a defaultdict creates for a door's timing data
NoSamples ==
    [opened_durations |-> <<>>,
     closing_to_closed_durations |-> <<>>,
     closed_to_opening_durations |-> <<>>]

TimingOf(td, k) == IF k \in DOMAIN td THEN td[k] ELSE NoSamples

elevator_key(mid) == <<"Elevator", mid>>
door_key(side, deck) == <<Capitalize(side), Capitalize(deck), "Door">>
timing_key(ek, dk) == <<ek, dk>>

\* first loop: the events of each (MachineId, Side, Deck) in arrival order,
\* the groups in the order of their first event
GroupKey(event) == <<event.MachineId, event.Side, event.Deck>>

\* a State that is present but null (None in Python)
NullState == "null"

\* event.get("State", "") is "" for an event without the key; a State of
\* None makes .upper() raise AttributeError and the event is skipped
Groupable(event) ==
    /\ event.MachineId # None
    /\ event.Side # ""
    /\ event.Deck # ""
    /\ event.State # NullState

GroupedEntry(event) ==
    [State |-> Upper(event.State), Timestamp |-> event.Timestamp]

RECURSIVE GroupEvents(_, _)
GroupEvents(evs, n) ==
    IF n = 0 THEN <<>>
    ELSE LET g == GroupEvents(evs, n - 1)
             e == evs[n]
             k == GroupKey(e)
             at == {i \in 1..Len(g) : g[i].key = k}
         IN  IF ~Groupable(e) THEN g
             ELSE IF at = {}
                  THEN Append(g, [key |-> k, list |-> <<GroupedEntry(e)>>])
                  ELSE [g EXCEPT ![CHOOSE i \in at : TRUE].list =
                                     Append(@, GroupedEntry(e))]

\* the state of the second loop: the tracker of the current group and the
\* results collected so far
Tracker(cc, rc, td) ==
    [current_sequence_index |-> 0,
     cycle_timestamps |-> <<>>,
     last_closed_timestamp |-> None,
     cycle_counts |-> cc,
     reversal_counts |-> rc,
     timing_data |-> td]

\* variant: an OPENING after OPENED already counts as a reversal
IsReversal_FromOpened(t) == t.current_sequence_index >= 2

\* "Was in CLOSING state": an OPENING that does not match the expected state
\* is a reversal
IsReversal(t) ==
    /\ t.current_sequence_index = 3
    /\ "CLOSING" \in DOMAIN t.cycle_timestamps

\* the timestamp from which closed_to_opening is measured, if any
ClosedBefore(t) == t.last_closed_timestamp

AppendSample(td, tk, series, value) ==
    Put(td, tk, [TimingOf(td, tk) EXCEPT ![series] = Append(@, value)])

\* variant: an event that does not match leaves the tracking where it is
MatchEvent_KeepsProgress(t, state, timestamp, ek, dk) ==
    IF state = cycle_sequence[t.current_sequence_index + 1]
    THEN [t EXCEPT !.cycle_timestamps = Put(@, state, timestamp),
                   !.current_sequence_index = @ + 1]
    ELSE t

\* the branch of the loop body that matches the event against the sequence
MatchEvent(t, state, timestamp, ek, dk) ==
    IF state = cycle_sequence[t.current_sequence_index + 1]
    THEN [t EXCEPT !.cycle_timestamps = Put(@, state, timestamp),
                   !.current_sequence_index = @ + 1]
    ELSE IF state = "OPENING"
    THEN [t EXCEPT
            !.reversal_counts =
                IF IsReversal(t)
                THEN Incr(@, <<ek, dk, get_day_from_timestamp(timestamp)>>)
                ELSE @,
            !.cycle_timestamps = Put(<<>>, "OPENING", timestamp),
            !.current_sequence_index = 1,
            !.timing_data =
                IF ClosedBefore(t) # None
                THEN AppendSample(@, timing_key(ek, dk),
                                  "closed_to_opening_durations",
                                  Seconds(timestamp - Val(ClosedBefore(t))))
                ELSE @]
    ELSE [t EXCEPT !.current_sequence_index = 0, !.cycle_timestamps = <<>>]

\* variant: the opened sample is measured from OPENING
CycleSamples_FromOpening(td, tk, ct) ==
    AppendSample(
        AppendSample(td, tk, "opened_durations",
                     Seconds(ct["CLOSING"] - ct["OPENING"])),
        tk, "closing_to_closed_durations",
        Seconds(ct["CLOSED"] - ct["CLOSING"]))

\* the samples a completed cycle adds
CycleSamples(td, tk, ct) ==
    IF \A i \in 1..Len(cycle_sequence) : cycle_sequence[i] \in DOMAIN ct
    THEN AppendSample(
             AppendSample(td, tk, "opened_durations",
                          Seconds(ct["CLOSING"] - ct["OPENED"])),
             tk, "closing_to_closed_durations",
             Seconds(ct["CLOSED"] - ct["CLOSING"]))
    ELSE td

\* "Complete cycle found"
CompleteCycle(t, timestamp, ek, dk) ==
    IF t.current_sequence_index = Len(cycle_sequence)
    THEN [t EXCEPT
            !.cycle_counts = Incr(@, <<ek, dk, get_day_from_timestamp(timestamp)>>),
            !.timing_data = CycleSamples(@, timing_key(ek, dk), t.cycle_timestamps),
            !.last_closed_timestamp =
                IF "CLOSED" \in DOMAIN t.cycle_timestamps
                THEN Some(t.cycle_timestamps["CLOSED"]) ELSE None,
            !.current_sequence_index = 0,
            !.cycle_timestamps = <<>>]
    ELSE t

\* one iteration of "for event in event_list"
ProcessDoorEvent(t, event, ek, dk) ==
    IF event.Timestamp = None THEN t
    ELSE CompleteCycle(
             MatchEvent(t, event.State, Val(event.Timestamp), ek, dk),
             Val(event.Timestamp), ek, dk)

RECURSIVE ProcessEventList(_, _, _, _, _)
ProcessEventList(t, list, n, ek, dk) ==
    IF n = 0 THEN t
    ELSE ProcessDoorEvent(ProcessEventList(t, list, n - 1, ek, dk), list[n], ek, dk)

\* variant: the tracker of one group is carried over into the next group
RECURSIVE ProcessGroups_SharedTracker(_, _)
ProcessGroups_SharedTracker(groups, n) ==
    IF n = 0 THEN Tracker(<<>>, <<>>, <<>>)
    ELSE LET g == groups[n]
         IN  ProcessEventList(ProcessGroups_SharedTracker(groups, n - 1),
                              g.list, Len(g.list),
                              elevator_key(g.key[1]), door_key(g.key[2], g.key[3]))

\* "for (machine_id, side, deck), event_list in grouped_events.items()"
RECURSIVE ProcessGroups(_, _)
ProcessGroups(groups, n) ==
    IF n = 0 THEN Tracker(<<>>, <<>>, <<>>)
    ELSE LET before == ProcessGroups(groups, n - 1)
             g == groups[n]
         IN  ProcessEventList(
                 Tracker(before.cycle_counts, before.reversal_counts,
                         before.timing_data),
                 g.list, Len(g.list),
                 elevator_key(g.key[1]), door_key(g.key[2], g.key[3]))

RECURSIVE FracSum(_)
FracSum(xs) == IF xs = <<>> THEN Zero ELSE FracAdd(Head(xs), FracSum(Tail(xs)))

FracMinOf(xs) == CHOOSE x \in {xs[i] : i \in 1..Len(xs)} : \A i \in 1..Len(xs) : FracLeq(x, xs[i])
FracMaxOf(xs) == CHOOSE x \in {xs[i] : i \in 1..Len(xs)} : \A i \in 1..Len(xs) : FracLeq(xs[i], x)

\* avg, min and max of one series, 0 when it has no sample
SeriesStats(xs) ==
    IF xs # <<>>
    THEN [avg |-> FracDiv(FracSum(xs), Frac(Len(xs), 1)),
          min |-> FracMinOf(xs), max |-> FracMaxOf(xs)]
    ELSE [avg |-> Zero, min |-> Zero, max |-> Zero]

TimingStats(td) ==
    [k \in DOMAIN td |->
        [opened_duration_seconds |-> SeriesStats(td[k].opened_durations),
         closing_to_closed_duration_seconds |->
             SeriesStats(td[k].closing_to_closed_durations),
         closed_to_opening_duration_seconds |->
             SeriesStats(td[k].closed_to_opening_durations),
         sample_counts |->
             [opened_samples |-> Len(td[k].opened_durations),
              closing_to_closed_samples |-> Len(td[k].closing_to_closed_durations),
              closed_to_opening_samples |-> Len(td[k].closed_to_opening_durations)]]]

-----------------------------------------------------------------------------
\* The door events the model draws

\* the timestamp of the i-th event of the list: increasing, as after the sort
\* in DoorCyclesTool.run, with midnight between the third and fourth event
\* and with a different distance between any two events
DoorTimestamp(i) == MsPerDay - 12 * MsPerSecond + (2 ^ i) * MsPerSecond

RawStates == {"Opening", "Opened", "Closing", "Closed", "Nudging"}

DoorEvent(i, state, side, has_timestamp) ==
    [MachineId |-> Some(1), Side |-> side, Deck |-> "lower", State |-> state,
     Timestamp |-> IF has_timestamp THEN Some(DoorTimestamp(i)) ELSE None]

\* lists of one door, every event with a timestamp
IsPlainDoorList(list) ==
    \E n \in 0..MaxDoorEvents : \E f \in [1..n -> RawStates] :
        list = [i \in 1..n |-> DoorEvent(i, f[i], "front", TRUE)]

\* shorter lists of one door in which one event has no timestamp
IsNullTimestampList(list) ==
    \E n \in 1..(MaxDoorEvents - 2) : \E f \in [1..n -> RawStates], p \in 1..n :
        list = [i \in 1..n |-> DoorEvent(i, f[i], "front", i # p)]

\* shorter lists in which the events of two doors are interleaved
IsTwoDoorList(list) ==
    \E n \in 1..(MaxDoorEvents - 3) :
        \E f \in [1..n -> RawStates], d \in [1..n -> {"front", "rear"}] :
            list = [i \in 1..n |-> DoorEvent(i, f[i], d[i], TRUE)]

-----------------------------------------------------------------------------
\* A caller of _calculate_cycles_and_timings

DoorInit ==
    /\ \/ IsPlainDoorList(door_events)
       \/ IsNullTimestampList(door_events)
       \/ IsTwoDoorList(door_events)
    /\ grouped_events = <<>>
    /\ cycle_counts = <<>>
    /\ reversal_counts = <<>>
    /\ timing_data = <<>>
    /\ timing_stats = <<>>
    /\ door_pc = "start"
    /\ UptimeIdle
    /\ ValidatorIdle
    /\ ServiceIdle
    /\ CoverageIdle
    /\ CalculatorIdle

CalculateCyclesAndTimings ==
    /\ door_pc = "start"
    /\ LET groups == GroupEvents(door_events, Len(door_events))
           t == ProcessGroups(groups, Len(groups))
       IN  /\ grouped_events' = groups
           /\ cycle_counts' = t.cycle_counts
           /\ reversal_counts' = t.reversal_counts
           /\ timing_data' = t.timing_data
           /\ timing_stats' = TimingStats(t.timing_data)
    /\ door_pc' = "done"
    /\ UNCHANGED <<door_events, uptime_vars, validator_vars, service_vars, coverage_vars, calculator_vars>>

DoorNext == CalculateCyclesAndTimings

DoorSpec == DoorInit /\ [][DoorNext]_vars

-----------------------------------------------------------------------------
\* A caller with the batches of several doors and with malformed events

\* lists in which the events of two doors are interleaved, long enough for a
\* whole cycle of one door around an event of the other
IsInterleavedList(list) ==
    \E n \in 1..(MaxDoorEvents - 2) :
        \E f \in [1..n -> {"Opening", "Opened", "Closing", "Closed"}],
           d \in [1..n -> {"front", "rear"}] :
            list = [i \in 1..n |-> DoorEvent(i, f[i], d[i], TRUE)]

\* lists of one door in which the event at one place is malformed: it has
\* no State key (read as ""), a State of None, or no timestamp
IsMalformedList(list) ==
    \E n \in 1..(MaxDoorEvents - 2) :
        \E f \in [1..n -> {"Opening", "Opened", "Closing", "Closed"}],
           p \in 1..n, bad \in {"", NullState, "no timestamp"} :
            list = [i \in 1..n |->
                       IF i # p THEN DoorEvent(i, f[i], "front", TRUE)
                       ELSE IF bad = "no timestamp"
                            THEN DoorEvent(i, f[i], "front", FALSE)
                            ELSE DoorEvent(i, bad, "front", TRUE)]

DoorBatchInit ==
    /\ \/ IsInterleavedList(door_events)
       \/ IsMalformedList(door_events)
    /\ grouped_events = <<>>
    /\ cycle_counts = <<>>
    /\ reversal_counts = <<>>
    /\ timing_data = <<>>
    /\ timing_stats = <<>>
    /\ door_pc = "start"
    /\ UptimeIdle
    /\ ValidatorIdle
    /\ ServiceIdle
    /\ CoverageIdle
    /\ CalculatorIdle

DoorBatchSpec == DoorBatchInit /\ [][DoorNext]_vars

-----------------------------------------------------------------------------
\* Properties of the door-cycle tracker

\* the events of a group that have a timestamp
ValidEvents(list) == SelectSeq(list, LAMBDA e : e.Timestamp # None)

\* the positions of v at which the states of pattern occur consecutively
Occurrences(v, pattern) ==
    {i \in 1..(Len(v) - Len(pattern) + 1) :
        \A k \in 1..Len(pattern) : v[i + k - 1].State = pattern[k]}

\* the elements of a finite set of integers in ascending order
RECURSIVE Ascending(_)
Ascending(S) ==
    IF S = {} THEN <<>>
    ELSE LET m == CHOOSE x \in S : \A y \in S : x <= y
         IN  <<m>> \o Ascending(S \ {m})

RECURSIVE SumOver(_, _)
SumOver(f, S) ==
    IF S = {} THEN 0
    ELSE LET k == CHOOSE x \in S : TRUE IN f[k] + SumOver(f, S \ {k})

\* a door's count on one day, and over all days
CountOn(counts, ek, dk, day) ==
    IF <<ek, dk, day>> \in DOMAIN counts THEN counts[<<ek, dk, day>>] ELSE 0

TotalCount(counts, ek, dk) ==
    SumOver(counts, {k \in DOMAIN counts : k[1] = ek /\ k[2] = dk})

DayOfEvent(e) == Val(e.Timestamp) \div MsPerDay
MsBetween(e1, e2) == Val(e2.Timestamp) - Val(e1.Timestamp)

GroupIndices == 1..Len(grouped_events)
GroupElevator(g) == <<"Elevator", grouped_events[g].key[1]>>
GroupDoor(g) ==
    <<IF grouped_events[g].key[2] = "front" THEN "Front" ELSE "Rear", "Lower", "Door">>
GroupValid(g) == ValidEvents(grouped_events[g].list)
AllDays == {0, 1, 2}

Reversal_pattern == <<"OPENING", "OPENED", "CLOSING", "OPENING">>

\* C6: a group's completed cycles are the occurrences of OPENING, OPENED,
\* CLOSING, CLOSED as four consecutive events of its list, events without a
\* timestamp left out; nothing else earns a cycle.  The list [Opening, Opened,
\* Closing, Closed] gives 1 cycle and 0 reversals.
C6_CyclesAreConsecutiveRuns ==
    (door_pc = "done") =>
        /\ \A g \in GroupIndices :
              /\ TotalCount(cycle_counts, GroupElevator(g), GroupDoor(g))
                     = Cardinality(Occurrences(GroupValid(g), cycle_sequence))
              /\ [i \in 1..Len(GroupValid(g)) |-> GroupValid(g)[i].State]
                         = cycle_sequence
                     => /\ TotalCount(cycle_counts, GroupElevator(g), GroupDoor(g)) = 1
                        /\ TotalCount(reversal_counts, GroupElevator(g), GroupDoor(g)) = 0
        /\ \A k \in DOMAIN cycle_counts :
              \E g \in GroupIndices : k[1] = GroupElevator(g) /\ k[2] = GroupDoor(g)

\* the events Opening, Opened, Closing, Closed of one door
C6_Witness ==
    /\ door_pc = "done"
    /\ Len(door_events) = 4
    /\ [i \in 1..4 |-> door_events[i].State]
           = <<"Opening", "Opened", "Closing", "Closed">>
    /\ Len(grouped_events) = 1
    /\ TotalCount(cycle_counts, GroupElevator(1), GroupDoor(1)) = 1

\* C7: a reversal is recorded, on the day of the OPENING event, exactly for
\* an OPENING that follows OPENING, OPENED, CLOSING directly; no other
\* OPENING records one; and every OPENING followed by OPENED, CLOSING, CLOSED
\* completes a cycle on the day of the CLOSED, whatever came before it.
C7_ReversalOnOpeningAfterClosing ==
    (door_pc = "done") =>
        \A g \in GroupIndices : \A day \in AllDays :
            LET v == GroupValid(g)
            IN  /\ CountOn(reversal_counts, GroupElevator(g), GroupDoor(g), day)
                       = Cardinality({i \in Occurrences(v, Reversal_pattern) :
                                          DayOfEvent(v[i + 3]) = day})
                /\ CountOn(cycle_counts, GroupElevator(g), GroupDoor(g), day)
                       = Cardinality({i \in Occurrences(v, cycle_sequence) :
                                          DayOfEvent(v[i + 3]) = day})

\* Opening, Opened, Closing, Opening, Opened, Closing, Closed: one reversal,
\* on the day of the second Opening, and one cycle
C7_Witness ==
    /\ door_pc = "done"
    /\ Len(door_events) = 7
    /\ [i \in 1..7 |-> door_events[i].State]
           = <<"Opening", "Opened", "Closing", "Opening", "Opened", "Closing", "Closed">>
    /\ reversal_counts =
           (<<GroupElevator(1), GroupDoor(1), DayOfEvent(door_events[4])>> :> 1)
    /\ DayOfEvent(door_events[3]) # DayOfEvent(door_events[4])
    /\ TotalCount(cycle_counts, GroupElevator(1), GroupDoor(1)) = 1

\* the samples of a door, none when it has no entry
SamplesOf(g, series) ==
    LET tk == <<GroupElevator(g), GroupDoor(g)>>
    IN  IF tk \in DOMAIN timing_data THEN timing_data[tk][series] ELSE <<>>

SampleCountOf(g, name) ==
    LET tk == <<GroupElevator(g), GroupDoor(g)>>
    IN  IF tk \in DOMAIN timing_stats THEN timing_stats[tk].sample_counts[name] ELSE 0

\* C8: every completed cycle adds one opened sample, CLOSING - OPENED, and
\* one closing-to-closed sample, CLOSED - CLOSING, in seconds, from its own
\* events; both sample counts equal the door's completed cycles.
C8_OneSamplePairPerCycle ==
    (door_pc = "done") =>
        \A g \in GroupIndices :
            LET v == GroupValid(g)
                at == Ascending(Occurrences(v, cycle_sequence))
                n == TotalCount(cycle_counts, GroupElevator(g), GroupDoor(g))
            IN  /\ SamplesOf(g, "opened_durations")
                       = [c \in 1..Len(at) |->
                             Frac(MsBetween(v[at[c] + 1], v[at[c] + 2]), 1000)]
                /\ SamplesOf(g, "closing_to_closed_durations")
                       = [c \in 1..Len(at) |->
                             Frac(MsBetween(v[at[c] + 2], v[at[c] + 3]), 1000)]
                /\ SampleCountOf(g, "opened_samples") = n
                /\ SampleCountOf(g, "closing_to_closed_samples") = n

\* a door with a completed cycle after an abandoned one
C8_Witness ==
    /\ door_pc = "done"
    /\ Len(grouped_events) = 1
    /\ Len(GroupValid(1)) = 7
    /\ Occurrences(GroupValid(1), cycle_sequence) = {4}
    /\ SampleCountOf(1, "opened_samples") = 1
    /\ SamplesOf(1, "opened_durations") = <<Frac(32, 1)>>

\* the first OPENING after position i of v, if any
NextOpening(v, i) == {j \in (i + 1)..Len(v) : v[j].State = "OPENING"}

\* C9 as stated: every completed cycle that is followed by a later OPENING
\* gives exactly one closed-to-opening sample, that OPENING's timestamp minus
\* the cycle's CLOSED timestamp.
C9_OneSamplePerFollowingOpening ==
    (door_pc = "done") =>
        \A g \in GroupIndices :
            LET v == GroupValid(g)
                followed == {i \in Occurrences(v, cycle_sequence) :
                                NextOpening(v, i + 3) # {}}
                at == Ascending(followed)
            IN  SamplesOf(g, "closed_to_opening_durations")
                    = [c \in 1..Len(at) |->
                          LET j == CHOOSE x \in NextOpening(v, at[c] + 3) :
                                       \A y \in NextOpening(v, at[c] + 3) : x <= y
                          IN  Frac(MsBetween(v[at[c] + 3], v[j]), 1000)]

-----------------------------------------------------------------------------
\* TimezoneService.validate_date_range

\* max_days, the "2 weeks" of the range rule
max_days == 14
\* the span above which the large-range warning is given
LargeRangeDays == 365

\* (b - a).days of two datetimes: whole days, rounded down
TimedeltaDays(b, a) == (b.date - a.date) - (IF b.tod < a.tod THEN 1 ELSE 0)

\* the result dictionary before any rule is evaluated
InitialResult(now) ==
    [is_valid |-> TRUE,
     warnings |-> <<>>,
     recommendations |-> <<>>,
     latest_available_date |-> now.date,
     current_time_local |-> now]

\* "Check for future dates": the start date, else the end date
FutureDateRule(r, st, en, now) ==
    IF st.date > now.date
    THEN [r EXCEPT
            !.is_valid = FALSE,
            !.warnings = Append(@, <<"Start date is in the future", st.date>>),
            !.recommendations = @ \o << <<"Latest available date", now.date>>,
                                        <<"Current time", now>> >>]
    ELSE IF en.date > now.date
    THEN [r EXCEPT
            !.is_valid = FALSE,
            !.warnings = Append(@, <<"End date is in the future", en.date>>),
            !.recommendations = @ \o << <<"Latest available date", now.date>>,
                                        <<"Current time", now>>,
                                        <<"Please use a date range that ends today or in the past">> >>]
    ELSE r

\* "Check date range validity"
OrderRule(r, st, en) ==
    IF ~DtLess(st, en)
    THEN [r EXCEPT !.is_valid = FALSE,
                   !.warnings = Append(@, <<"Start date must be before end date">>)]
    ELSE r

\* variant: only an end date after the current day is refused
CurrentDayRule_AllowsToday(r, en, now) ==
    IF en.date > now.date
    THEN [r EXCEPT !.is_valid = FALSE,
                   !.warnings = Append(@, <<"End date cannot be current day", now.date>>)]
    ELSE r

\* "Check if end date is current day (not allowed)"
CurrentDayRule(r, en, now) ==
    IF en.date >= now.date
    THEN [r EXCEPT
            !.is_valid = FALSE,
            !.warnings = Append(@, <<"End date cannot be current day", now.date>>),
            !.recommendations = @ \o << <<"Latest allowed end date", now.date - 1>>,
                                        <<"Date range cannot include the current day">> >>]
    ELSE r

\* variant: a range of max_days days is already too large
MaxRangeRule_FourteenTooLarge(r, st, en) ==
    IF r.is_valid /\ en.date - st.date >= max_days
    THEN [r EXCEPT
            !.is_valid = FALSE,
            !.warnings = Append(@, <<"Date range too large", en.date - st.date, max_days>>)]
    ELSE r

\* "Check 2-week (14 days) maximum range for valid dates"
MaxRangeRule(r, st, en) ==
    IF r.is_valid /\ en.date - st.date > max_days
    THEN [r EXCEPT
            !.is_valid = FALSE,
            !.warnings = Append(@, <<"Date range too large", en.date - st.date, max_days>>),
            !.recommendations = @ \o << <<"Earliest start date", en.date, en.date - max_days>>,
                                        <<"Maximum allowed range", max_days>>,
                                        <<"Please select a shorter date range">> >>]
    ELSE r

\* "Check for very large date ranges": a warning only
LargeRangeRule(r, st, en) ==
    IF TimedeltaDays(en, st) > LargeRangeDays
    THEN [r EXCEPT
            !.warnings = Append(@, <<"Large date range", TimedeltaDays(en, st)>>),
            !.recommendations = Append(@, <<"Recommended: Analyze periods of 30-90 days">>)]
    ELSE r

\* variant: a future end with a start that is not in the future is moved to
\* the current time and the window accepted
validate_date_range_AdjustsEnd(st, en, now) ==
    IF st.date <= now.date /\ en.date > now.date
    THEN [is_valid |-> DtLess(st, now),
          warnings |-> << <<"End date is in the future", en.date>> >>,
          recommendations |-> <<>>,
          latest_available_date |-> now.date,
          current_time_local |-> now,
          adjusted_end_time |-> now]
    ELSE LargeRangeRule(
             MaxRangeRule(
                 CurrentDayRule(
                     OrderRule(FutureDateRule(InitialResult(now), st, en, now), st, en),
                     en, now),
                 st, en),
             st, en)

validate_date_range(st, en, now) ==
    LargeRangeRule(
        MaxRangeRule(
            CurrentDayRule(
                OrderRule(FutureDateRule(InitialResult(now), st, en, now), st, en),
                en, now),
            st, en),
        st, en)

-----------------------------------------------------------------------------
\* A caller that validates one window

\* how far before the current day the dates of a window reach
MaxSpanDays == 16
\* how far after it
MaxAheadDays == 2

\* the current day; one date lies more than LargeRangeDays before the rest
Today == MaxSpanDays + LargeRangeDays + 2

ValidatorDates ==
    ((Today - MaxSpanDays)..(Today + MaxAheadDays))
        \cup {Today - MaxSpanDays - LargeRangeDays - 1}

\* midnight and noon
TimesOfDay == {0, TickMs}

ValidatorInit ==
    /\ start_time \in {DateTime(d, t) : d \in ValidatorDates, t \in TimesOfDay}
    /\ end_time \in {DateTime(d, t) : d \in ValidatorDates, t \in TimesOfDay}
    /\ current_local \in {DateTime(Today, t) : t \in TimesOfDay}
    /\ date_validation = None
    /\ validate_pc = "start"
    /\ BuildIdle
    /\ DoorIdle
    /\ ServiceIdle
    /\ CoverageIdle
    /\ CalculatorIdle

ValidateDateRange ==
    /\ validate_pc = "start"
    /\ date_validation' = validate_date_range(start_time, end_time, current_local)
    /\ validate_pc' = "done"
    /\ UNCHANGED <<current_local, uptime_vars, door_vars, service_vars, coverage_vars, calculator_vars>>

ValidatorNext == ValidateDateRange

ValidatorSpec == ValidatorInit /\ [][ValidatorNext]_vars

-----------------------------------------------------------------------------
\* Properties of the validator

HasWarning(r, text) == \E i \in 1..Len(r.warnings) : r.warnings[i][1] = text

-----------------------------------------------------------------------------
\* The event store, as CosmosService presents it

\* machine ids, in the order sorted() gives strings
MachineIdOrder == <<"10", "2", "E1">>

\* int(machine_id): the number, or None where int() raises ValueError
IntOf(mid) ==
    CASE mid = "2" -> Some(2)
      [] mid = "10" -> Some(10)
      [] OTHER -> None

\* get_all_machine_ids: sorted(list(set(machine_ids))) of a set of ids
SortedIds(S) == SelectSeq(MachineIdOrder, LAMBDA m : m \in S)

\* get_car_mode_changes: the events with startTs <= Timestamp <= endTs, of
\* one machine when machine_id is given
get_car_mode_changes(stored, start_ts, end_ts, mid_filter) ==
    SelectSeq(stored,
              LAMBDA e : /\ e.Timestamp >= start_ts
                         /\ e.Timestamp <= end_ts
                         /\ mid_filter # None => e.MachineId = Val(mid_filter))

\* "Group events by machine ID": events_by_machine after the loop
RECURSIVE GroupByMachine(_, _)
GroupByMachine(evs, n) ==
    IF n = 0 THEN <<>>
    ELSE LET d == GroupByMachine(evs, n - 1)
             mid == evs[n].MachineId
         IN  Put(d, mid, Append(IF mid \in DOMAIN d THEN d[mid] ELSE <<>>, evs[n]))

\* events_by_machine.get(mid, [])
EventsOf(d, mid) == IF mid \in DOMAIN d THEN d[mid] ELSE <<>>

\* (end_time - start_time).total_seconds() / 60.0
ExpectedMinutes(st, en) == Frac(DtDiffMs(en, st), MsPerMinute)

\* (part / whole * 100) if whole > 0 else 0.0
CoveragePercentage(part, whole) ==
    IF FracLess(Zero, whole) THEN FracMul(FracDiv(part, whole), Hundred) ELSE Zero

-----------------------------------------------------------------------------
\* UptimeService.get_uptime_metrics

\* the structured answer to a window that failed validation
ValidationError(installation_id, v) ==
    [installation_id |-> installation_id,
     error |-> TRUE,
     validation_warnings |-> v.warnings,
     recommendations |-> v.recommendations,
     latest_available_date |-> v.latest_available_date,
     current_time_local |-> v.current_time_local]

\* target_machine_ids
TargetMachineIds(ids, mid_filter) ==
    IF mid_filter # None
    THEN IF \E i \in 1..Len(ids) : ids[i] = Val(mid_filter)
         THEN <<Val(mid_filter)>> ELSE <<>>
    ELSE ids

ZeroTotals ==
    [total_uptime |-> Zero, total_downtime |-> Zero, total_duration |-> Zero,
     machines_with_data |-> 0, machines_without_data |-> 0]

\* the entry of a machine that has events in the window
MetricsWithData(mid, machine_events, st, en, installation_id) ==
    LET m == calculate_metrics(build_intervals(machine_events, st, en, mid),
                               mid, installation_id)
    IN  [machine_id |-> mid,
         uptime_minutes |-> m.uptime_minutes,
         downtime_minutes |-> m.downtime_minutes,
         uptime_percentage |-> m.uptime_percentage,
         downtime_percentage |-> m.downtime_percentage,
         total_minutes |-> m.total_minutes,
         has_data |-> TRUE,
         data_coverage_percentage |->
             CoveragePercentage(m.total_minutes, ExpectedMinutes(st, en)),
         intervals |-> m.intervals]

\* the entry of a machine that has none
MetricsWithoutData(mid) ==
    [machine_id |-> mid,
     uptime_minutes |-> Zero,
     downtime_minutes |-> Zero,
     uptime_percentage |-> Zero,
     downtime_percentage |-> Zero,
     total_minutes |-> Zero,
     has_data |-> FALSE,
     data_coverage_percentage |-> Zero,
     intervals |-> <<>>]

\* variant: a machine without data is left out of the counts
AddToTotals_SilentUncounted(t, entry) ==
    IF entry.has_data
    THEN [t EXCEPT !.total_uptime = FracAdd(@, entry.uptime_minutes),
                   !.total_downtime = FracAdd(@, entry.downtime_minutes),
                   !.total_duration = FracAdd(@, entry.total_minutes),
                   !.machines_with_data = @ + 1]
    ELSE t

\* the running totals after one machine
AddToTotals(t, entry) ==
    IF entry.has_data
    THEN [t EXCEPT !.total_uptime = FracAdd(@, entry.uptime_minutes),
                   !.total_downtime = FracAdd(@, entry.downtime_minutes),
                   !.total_duration = FracAdd(@, entry.total_minutes),
                   !.machines_with_data = @ + 1]
    ELSE [t EXCEPT !.machines_without_data = @ + 1]

\* machine_metrics.sort(key=lambda x: int(x['machine_id'])): stable
RECURSIVE InsertByIntId(_, _)
InsertByIntId(s, e) ==
    IF s = <<>> THEN <<e>>
    ELSE IF Val(IntOf(s[Len(s)].machine_id)) <= Val(IntOf(e.machine_id))
    THEN Append(s, e)
    ELSE Append(InsertByIntId(SubSeq(s, 1, Len(s) - 1), e), s[Len(s)])

RECURSIVE SortByIntId(_)
SortByIntId(s) ==
    IF s = <<>> THEN <<>>
    ELSE InsertByIntId(SortByIntId(SubSeq(s, 1, Len(s) - 1)), s[Len(s)])

\* the key function raises for an entry whose id is not a number
SortRaises(s) == \E i \in 1..Len(s) : IntOf(s[i].machine_id) = None

\* installation_summary
InstallationSummary(t, targets, st, en) ==
    [uptime_minutes |-> t.total_uptime,
     downtime_minutes |-> t.total_downtime,
     uptime_percentage |-> Percentage(t.total_uptime, t.total_duration),
     downtime_percentage |-> Percentage(t.total_downtime, t.total_duration),
     total_minutes |-> t.total_duration,
     expected_total_minutes |-> ExpectedMinutes(st, en),
     data_coverage_percentage |->
         CoveragePercentage(t.total_duration, ExpectedMinutes(st, en)),
     total_elevators |-> Len(targets),
     elevators_with_data |-> t.machines_with_data,
     elevators_without_data |-> t.machines_without_data]

-----------------------------------------------------------------------------
\* DataCoverageService: the CarModeChanged coverage of each machine

\* round(x, 1): to one decimal, a tie to the even neighbour
Round1(x) ==
    LET n == x.num * 10
        q == n \div x.den
        r == n % x.den
        up == 2 * r > x.den \/ (2 * r = x.den /\ q % 2 = 1)
    IN  Frac(IF up THEN q + 1 ELSE q, 10)

MinTimestamp(evs) ==
    CHOOSE t \in {evs[i].Timestamp : i \in 1..Len(evs)} :
        \A i \in 1..Len(evs) : t <= evs[i].Timestamp

MaxTimestamp(evs) ==
    CHOOSE t \in {evs[i].Timestamp : i \in 1..Len(evs)} :
        \A i \in 1..Len(evs) : t >= evs[i].Timestamp

IntMax(a, b) == IF a >= b THEN a ELSE b
IntMin(a, b) == IF a <= b THEN a ELSE b

\* variant: a span of exactly half the window already counts for 80%
estimate_coverage_from_events_HalfIsEighty(evs, st, en) ==
    IF evs = <<>> THEN Zero
    ELSE LET start_epoch == local_datetime_to_epoch(st)
             end_epoch == local_datetime_to_epoch(en)
             first_event_ts == IntMax(MinTimestamp(evs), start_epoch)
             last_event_ts == IntMin(MaxTimestamp(evs), end_epoch)
             total_period_minutes == Frac(end_epoch - start_epoch, MsPerMinute)
             span_ratio ==
                 IF FracLess(Zero, total_period_minutes)
                 THEN FracDiv(Frac(last_event_ts - first_event_ts, MsPerMinute),
                              total_period_minutes)
                 ELSE Zero
         IN  IF FracLess(Frac(8, 10), span_ratio)
             THEN FracMul(total_period_minutes, Frac(95, 100))
             ELSE IF FracLeq(Frac(5, 10), span_ratio)
             THEN FracMul(total_period_minutes, Frac(8, 10))
             ELSE IF FracLess(Frac(2, 10), span_ratio)
             THEN FracMul(total_period_minutes, Frac(6, 10))
             ELSE FracMul(total_period_minutes, Frac(3, 10))

\* _estimate_coverage_from_events, for events that all have a timestamp
estimate_coverage_from_events(evs, st, en) ==
    IF evs = <<>> THEN Zero
    ELSE LET start_epoch == local_datetime_to_epoch(st)
             end_epoch == local_datetime_to_epoch(en)
             first_event_ts == IntMax(MinTimestamp(evs), start_epoch)
             last_event_ts == IntMin(MaxTimestamp(evs), end_epoch)
             coverage_span_minutes == Frac(last_event_ts - first_event_ts, MsPerMinute)
             total_period_minutes == Frac(end_epoch - start_epoch, MsPerMinute)
             span_ratio ==
                 IF FracLess(Zero, total_period_minutes)
                 THEN FracDiv(coverage_span_minutes, total_period_minutes)
                 ELSE Zero
         IN  IF FracLess(Frac(8, 10), span_ratio)
             THEN FracMul(total_period_minutes, Frac(95, 100))
             ELSE IF FracLess(Frac(5, 10), span_ratio)
             THEN FracMul(total_period_minutes, Frac(8, 10))
             ELSE IF FracLess(Frac(2, 10), span_ratio)
             THEN FracMul(total_period_minutes, Frac(6, 10))
             ELSE FracMul(total_period_minutes, Frac(3, 10))

\* the machine_coverage entry of one target machine
MachineCoverage(mid, machine_events, st, en) ==
    IF machine_events # <<>>
    THEN LET coverage_minutes == estimate_coverage_from_events(machine_events, st, en)
         IN  [machine_id |-> mid,
              has_data |-> TRUE,
              event_count |-> Len(machine_events),
              coverage_minutes |-> coverage_minutes,
              coverage_percentage |->
                  Round1(CoveragePercentage(coverage_minutes, ExpectedMinutes(st, en))),
              first_event |-> Some(MinTimestamp(machine_events)),
              last_event |-> Some(MaxTimestamp(machine_events))]
    ELSE [machine_id |-> mid,
          has_data |-> FALSE,
          event_count |-> 0,
          coverage_minutes |-> Zero,
          coverage_percentage |-> Zero,
          first_event |-> None,
          last_event |-> None]

\* variant: only the machines with data count towards the expected minutes
analyze_car_mode_coverage_SilentNotExpected(stored, st, en, targets) ==
    LET evs == get_car_mode_changes(stored, local_datetime_to_epoch(st),
                                    local_datetime_to_epoch(en), None)
        by_machine == GroupByMachine(evs, Len(evs))
        machine_coverage ==
            [i \in 1..Len(targets) |->
                MachineCoverage(targets[i], EventsOf(by_machine, targets[i]), st, en)]
        with_data == SelectSeq(machine_coverage, LAMBDA c : c.has_data)
        total_available_minutes ==
            FracSum([i \in 1..Len(with_data) |-> with_data[i].coverage_minutes])
    IN  [has_data |-> Len(evs) > 0,
         total_events |-> Len(evs),
         machines_with_data |-> Len(with_data),
         total_available_minutes |-> total_available_minutes,
         overall_coverage_percentage |->
             CoveragePercentage(total_available_minutes,
                                FracMul(ExpectedMinutes(st, en), Frac(Len(with_data), 1))),
         machine_coverage |-> machine_coverage]

\* _analyze_car_mode_coverage
analyze_car_mode_coverage(stored, st, en, targets) ==
    LET evs == get_car_mode_changes(stored, local_datetime_to_epoch(st),
                                    local_datetime_to_epoch(en), None)
        by_machine == GroupByMachine(evs, Len(evs))
        machine_coverage ==
            [i \in 1..Len(targets) |->
                MachineCoverage(targets[i], EventsOf(by_machine, targets[i]), st, en)]
        with_data == SelectSeq(machine_coverage, LAMBDA c : c.has_data)
        total_available_minutes ==
            FracSum([i \in 1..Len(with_data) |-> with_data[i].coverage_minutes])
        total_expected_minutes ==
            FracMul(ExpectedMinutes(st, en), Frac(Len(targets), 1))
    IN  [has_data |-> Len(evs) > 0,
         total_events |-> Len(evs),
         machines_with_data |-> Len(with_data),
         total_available_minutes |-> total_available_minutes,
         overall_coverage_percentage |->
             CoveragePercentage(total_available_minutes, total_expected_minutes),
         machine_coverage |-> machine_coverage]

\* _identify_data_gaps: the machines without data, then those below 50%
identify_data_gaps(coverage) ==
    LET mc == coverage.machine_coverage
        silent == SelectSeq(mc, LAMBDA c : ~c.has_data)
        low == SelectSeq(mc, LAMBDA c :
                   c.has_data /\ FracLess(c.coverage_percentage, Frac(50, 1)))
    IN  [i \in 1..Len(silent) |->
            [type |-> "machine_no_data", machine_id |-> silent[i].machine_id]]
        \o [i \in 1..Len(low) |->
            [type |-> "low_coverage", machine_id |-> low[i].machine_id]]

\* target_machine_ids of analyze_coverage
CoverageTargetIds(ids, mid_filter) ==
    IF mid_filter # None /\ \E i \in 1..Len(ids) : ids[i] = Val(mid_filter)
    THEN <<Val(mid_filter)>>
    ELSE ids

-----------------------------------------------------------------------------
\* A caller that asks for the uptime metrics and for the coverage of a window

\* most events the store holds for the installation
MaxStoredEvents == 2

KnownIds == {MachineIdOrder[i] : i \in 1..Len(MachineIdOrder)}
ServiceModes == {"NOR", "COR"}
MachineFilters == {None, Some("2"), Some("E1")}

\* the current time: the start of the day after the last event tick
ServiceNow == epoch_to_local_datetime((MaxTick + 1) * TickMs)

ServiceInit ==
    /\ \E S \in SUBSET KnownIds :
          /\ all_machine_ids = SortedIds(S)
          /\ \E n \in 0..MaxStoredEvents :
                stored_events \in
                    [1..n -> [MachineId : S, ModeName : ServiceModes,
                              Timestamp : EventTimestamps]]
    /\ cosmos_calls = <<>>
    /\ machine_id \in MachineFilters
    /\ start_time \in WindowTimes
    /\ end_time \in WindowTimes
    /\ current_local = ServiceNow
    /\ date_validation = None
    /\ validate_pc = "idle"
    /\ target_machine_ids = <<>>
    /\ events_by_machine = <<>>
    /\ machine_metrics = <<>>
    /\ totals = None
    /\ result = None
    /\ car_mode_coverage = None
    /\ data_gaps = <<>>
    /\ service_pc = "start"
    /\ BuildIdle
    /\ DoorIdle
    /\ CoverageIdle
    /\ CalculatorIdle

\* variant: the window is validated but the answer is not looked at
ValidateWindow_NeverRejects ==
    /\ service_pc = "start"
    /\ date_validation' = validate_date_range(start_time, end_time, current_local)
    /\ service_pc' = "validated"
    /\ UNCHANGED <<uptime_vars, door_vars, coverage_vars, calculator_vars, current_local, validate_pc, store_vars,
                   machine_id, target_machine_ids, events_by_machine,
                   machine_metrics, totals, result, car_mode_coverage, data_gaps>>

\* get_uptime_metrics, lines 320-338: validate, and answer an invalid window
\* with the error dictionary
ValidateWindow ==
    /\ service_pc = "start"
    /\ LET v == validate_date_range(start_time, end_time, current_local)
       IN  /\ date_validation' = v
           /\ IF ~v.is_valid
              THEN /\ result' = Some(ValidationError(InstallationIdArg, v))
                   /\ service_pc' = "returned"
              ELSE /\ result' = result
                   /\ service_pc' = "validated"
    /\ UNCHANGED <<uptime_vars, door_vars, coverage_vars, calculator_vars, current_local, validate_pc, store_vars,
                   machine_id, target_machine_ids, events_by_machine,
                   machine_metrics, totals, car_mode_coverage, data_gaps>>

\* lines 340-382: the two queries, the grouping and the initial totals
QueryStore ==
    /\ service_pc = "validated"
    /\ LET start_epoch == local_datetime_to_epoch(start_time)
           end_epoch == local_datetime_to_epoch(end_time)
           evs == get_car_mode_changes(stored_events, start_epoch, end_epoch, machine_id)
       IN  /\ cosmos_calls' = cosmos_calls \o
                  << <<"get_uptime_metrics", "get_all_machine_ids">>,
                     <<"get_uptime_metrics", "get_car_mode_changes",
                       start_epoch, end_epoch, machine_id>> >>
           /\ events_by_machine' = GroupByMachine(evs, Len(evs))
    /\ target_machine_ids' = TargetMachineIds(all_machine_ids, machine_id)
    /\ machine_metrics' = <<>>
    /\ totals' = Some(ZeroTotals)
    /\ service_pc' = "loop"
    /\ UNCHANGED <<uptime_vars, door_vars, coverage_vars, calculator_vars, validator_vars, all_machine_ids,
                   stored_events, machine_id, result, car_mode_coverage, data_gaps>>

\* lines 384-440: one iteration of "for mid in target_machine_ids"
ProcessMachine ==
    /\ service_pc = "loop"
    /\ Len(machine_metrics) < Len(target_machine_ids)
    /\ LET mid == target_machine_ids[Len(machine_metrics) + 1]
           machine_events == EventsOf(events_by_machine, mid)
           entry == IF machine_events # <<>>
                    THEN MetricsWithData(mid, machine_events, start_time, end_time,
                                         InstallationIdArg)
                    ELSE MetricsWithoutData(mid)
       IN  /\ machine_metrics' = Append(machine_metrics, entry)
           /\ totals' = Some(AddToTotals(Val(totals), entry))
    /\ UNCHANGED <<uptime_vars, door_vars, coverage_vars, calculator_vars, validator_vars, store_vars, machine_id,
                   target_machine_ids, events_by_machine, result,
                   car_mode_coverage, data_gaps, service_pc>>

\* lines 443-627: the sort, the summary and the return; an exception of the
\* sort key or of target_machine_ids[0] is logged and raised again
SortAndSummarize ==
    /\ service_pc = "loop"
    /\ Len(machine_metrics) = Len(target_machine_ids)
    /\ IF SortRaises(machine_metrics)
       THEN /\ result' = Some([raised |-> "ValueError"])
            /\ service_pc' = "raised"
            /\ UNCHANGED machine_metrics
       ELSE IF target_machine_ids = <<>>
       THEN /\ result' = Some([raised |-> "IndexError"])
            /\ service_pc' = "raised"
            /\ UNCHANGED machine_metrics
       ELSE /\ machine_metrics' = SortByIntId(machine_metrics)
            /\ result' =
                   Some([installation_id |-> InstallationIdArg,
                         machine_metrics |-> SortByIntId(machine_metrics),
                         installation_summary |->
                             InstallationSummary(Val(totals), target_machine_ids,
                                                 start_time, end_time),
                         time_range |-> [start |-> start_time, end |-> end_time]])
            /\ service_pc' = "returned"
    /\ UNCHANGED <<uptime_vars, door_vars, coverage_vars, calculator_vars, validator_vars, store_vars, machine_id,
                   target_machine_ids, events_by_machine, totals,
                   car_mode_coverage, data_gaps>>

\* analyze_coverage, lines 97-101 and 133-136 with _analyze_car_mode_coverage
\* and _identify_data_gaps: the coverage of each target machine
AnalyzeCarModeCoverage ==
    /\ service_pc # "idle"
    /\ car_mode_coverage = None
    /\ LET targets == CoverageTargetIds(all_machine_ids, machine_id)
           c == analyze_car_mode_coverage(stored_events, start_time, end_time, targets)
       IN  /\ car_mode_coverage' = Some(c)
           /\ data_gaps' = identify_data_gaps(c)
    /\ cosmos_calls' = cosmos_calls \o
           << <<"analyze_coverage", "get_all_machine_ids">>,
              <<"analyze_coverage", "get_car_mode_changes",
                local_datetime_to_epoch(start_time),
                local_datetime_to_epoch(end_time), None>> >>
    /\ UNCHANGED <<uptime_vars, door_vars, coverage_vars, calculator_vars, validator_vars, all_machine_ids,
                   stored_events, machine_id, target_machine_ids,
                   events_by_machine, machine_metrics, totals, result, service_pc>>

ServiceNext ==
    \/ ValidateWindow
    \/ QueryStore
    \/ ProcessMachine
    \/ SortAndSummarize
    \/ AnalyzeCarModeCoverage

ServiceSpec == ServiceInit /\ [][ServiceNext]_vars

-----------------------------------------------------------------------------
\* Properties of the service

\* the stored events of machine mid that the window's query returns
EventsInWindow(mid) ==
    get_car_mode_changes(stored_events, local_datetime_to_epoch(start_time),
                         local_datetime_to_epoch(end_time), Some(mid))

\* the known machines the uptime call is about, and those the coverage call
\* is about
UptimeTargets ==
    LET t == TargetMachineIds(all_machine_ids, machine_id)
    IN  {t[i] : i \in 1..Len(t)}

CoverageTargets ==
    LET t == CoverageTargetIds(all_machine_ids, machine_id)
    IN  {t[i] : i \in 1..Len(t)}

UptimeCallOver ==
    /\ service_pc \in {"returned", "raised"}
    /\ date_validation # None
    /\ date_validation.is_valid

\* C5 as stated: a known machine with no event in the window is reported,
\* without an exception, with has_data = FALSE, no intervals, 0 minutes and
\* 0 for every percentage and coverage value, in the uptime result and in
\* the coverage result, where it is listed as a machine without data.
C5_SilentMachineIsValidResult ==
    /\ UptimeCallOver =>
          \A mid \in UptimeTargets :
              EventsInWindow(mid) = <<>> =>
                  /\ build_intervals(EventsInWindow(mid), start_time, end_time, mid) = <<>>
                  /\ service_pc = "returned"
                  /\ \E i \in 1..Len(Val(result).machine_metrics) :
                        Val(result).machine_metrics[i] = MetricsWithoutData(mid)
    /\ car_mode_coverage # None =>
          \A mid \in CoverageTargets :
              EventsInWindow(mid) = <<>> =>
                  /\ \E i \in 1..Len(Val(car_mode_coverage).machine_coverage) :
                        LET c == Val(car_mode_coverage).machine_coverage[i]
                        IN  /\ c.machine_id = mid
                            /\ c.has_data = FALSE
                            /\ c.event_count = 0
                            /\ c.coverage_minutes = Zero
                            /\ c.coverage_percentage = Zero
                  /\ \E i \in 1..Len(data_gaps) :
                        data_gaps[i] = [type |-> "machine_no_data", machine_id |-> mid]

-----------------------------------------------------------------------------
\* Further properties of the validator

C12_EveryViolatedRuleIsReported ==
    (validate_pc = "done") =>
        /\ start_time.date > current_local.date
              => HasWarning(date_validation, "Start date is in the future")
        /\ end_time.date > current_local.date
              => HasWarning(date_validation, "End date is in the future")
        /\ ~DtLess(start_time, end_time)
              => HasWarning(date_validation, "Start date must be before end date")
        /\ end_time.date - start_time.date > 14
              => HasWarning(date_validation, "Date range too large")
        /\ TimedeltaDays(end_time, start_time) > 365
              => HasWarning(date_validation, "Large date range")

-----------------------------------------------------------------------------
\* The validation gate of get_uptime_metrics

\* the store queries get_uptime_metrics has made
UptimeCalls == SelectSeq(cosmos_calls, LAMBDA c : c[1] = "get_uptime_metrics")

\* C13: get_uptime_metrics validates first.  A window that fails validation
\* ends in a returned error dictionary carrying the validator's warnings,
\* recommendations and latest available date, nothing is raised, and neither
\* machine ids nor events have been queried; the store is queried only for a
\* window that passed.
C13_ValidationGatesTheStore ==
    /\ service_pc = "start" => UptimeCalls = <<>>
    /\ (date_validation # None /\ ~date_validation.is_valid) =>
          /\ service_pc = "returned"
          /\ result = Some([installation_id |-> InstallationIdArg,
                            error |-> TRUE,
                            validation_warnings |-> date_validation.warnings,
                            recommendations |-> date_validation.recommendations,
                            latest_available_date |-> current_local.date,
                            current_time_local |-> current_local])
          /\ date_validation.warnings # <<>>
          /\ UptimeCalls = <<>>
          /\ events_by_machine = <<>>
          /\ machine_metrics = <<>>
    /\ UptimeCalls # <<>> =>
          /\ date_validation # None
          /\ date_validation.is_valid
    /\ (service_pc \in {"loop", "raised"} \/ machine_metrics # <<>>) =>
          /\ date_validation.is_valid
          /\ Len(UptimeCalls) = 2

\* a window that ends on the current day, over a store that holds events
C13_Witness ==
    /\ service_pc = "returned"
    /\ stored_events # <<>>
    /\ DtLess(start_time, end_time)
    /\ ~date_validation.is_valid
    /\ Val(result).error
    /\ UptimeCalls = <<>>

-----------------------------------------------------------------------------
\* Properties of the coverage estimate

\* the entries of the coverage result
CoverageEntries ==
    IF car_mode_coverage = None THEN <<>>
    ELSE Val(car_mode_coverage).machine_coverage

\* whole minutes between two epoch times on the minute grid
WholeMinutes(from_ms, to_ms) == (to_ms - from_ms) \div MsPerMinute

WindowMinutes ==
    WholeMinutes(local_datetime_to_epoch(start_time), local_datetime_to_epoch(end_time))

\* the minutes from max(first event, window start) to min(last event, window
\* end) of the events of machine mid in the window
SpanMinutes(mid) ==
    LET evs == EventsInWindow(mid)
        ts == {evs[i].Timestamp : i \in 1..Len(evs)}
        first == CHOOSE t \in ts : \A u \in ts : t <= u
        last == CHOOSE t \in ts : \A u \in ts : t >= u
    IN  WholeMinutes(IntMax(first, local_datetime_to_epoch(start_time)),
                     IntMin(last, local_datetime_to_epoch(end_time)))

\* the share of the window, in percent, the claim assigns to a span
ClaimedShare(span, window) ==
    IF 10 * span > 8 * window THEN 95
    ELSE IF 10 * span > 5 * window THEN 80
    ELSE IF 10 * span > 2 * window THEN 60
    ELSE 30

ClaimedPercent(mid) ==
    IF EventsInWindow(mid) = <<>> THEN 0
    ELSE ClaimedShare(SpanMinutes(mid), WindowMinutes)

RECURSIVE SumClaimedPercent(_, _)
SumClaimedPercent(entries, n) ==
    IF n = 0 THEN 0
    ELSE ClaimedPercent(entries[n].machine_id) + SumClaimedPercent(entries, n - 1)

OverallCoverage == Val(car_mode_coverage).overall_coverage_percentage

\* C16: the overall coverage is the sum of the machines' estimated minutes
\* over window minutes times the number of target machines, times 100, a
\* silent machine adding nothing above and a full window below; it is 0
\* without target machines or with an empty window, and always within 0..95.
C16_OverallCoverage ==
    car_mode_coverage # None =>
        LET n == Len(CoverageEntries)
        IN  /\ (n > 0 /\ WindowMinutes > 0) =>
                  /\ OverallCoverage = Frac(SumClaimedPercent(CoverageEntries, n), n)
                  /\ OverallCoverage =
                         FracMul(FracDiv(Val(car_mode_coverage).total_available_minutes,
                                         Frac(WindowMinutes * n, 1)),
                                 Hundred)
            /\ (n = 0 \/ WindowMinutes = 0) => OverallCoverage = Zero
            /\ FracLeq(Zero, OverallCoverage)
            /\ FracLeq(OverallCoverage, Frac(95, 1))

\* two target machines, one silent and one whose events span the whole
\* window: 95% and 0% give 47.5%
C16_Witness ==
    /\ car_mode_coverage # None
    /\ Len(CoverageEntries) = 2
    /\ \E i, j \in 1..2 :
          /\ ~CoverageEntries[i].has_data
          /\ CoverageEntries[j].has_data
          /\ CoverageEntries[j].coverage_percentage = Frac(95, 1)
    /\ OverallCoverage = Frac(95, 2)

-----------------------------------------------------------------------------
\* DataCoverageService.analyze_coverage: two tasks and the report

\* get_door_events: the events with startTs <= Timestamp <= endTs
get_door_events(stored, start_ts, end_ts) ==
    SelectSeq(stored, LAMBDA e : e.Timestamp >= start_ts /\ e.Timestamp <= end_ts)

\* what _analyze_car_mode_coverage returns after catching an exception
FailedCarModeCoverage ==
    [has_data |-> FALSE,
     total_events |-> 0,
     machines_with_data |-> 0,
     total_available_minutes |-> Zero,
     overall_coverage_percentage |-> Zero,
     machine_coverage |-> <<>>]

\* _analyze_door_coverage, and what it returns after catching an exception
analyze_door_coverage(found) ==
    [has_data |-> Len(found) > 0, total_events |-> Len(found)]

FailedDoorCoverage == [has_data |-> FALSE, total_events |-> 0]

\* variant: door data is listed only beside car-mode data
DataTypesAvailable_NeedsBoth(cmc, dc) ==
    (IF cmc.has_data THEN <<"CarModeChanged">> ELSE <<>>)
        \o (IF dc.has_data /\ cmc.has_data THEN <<"Door">> ELSE <<>>)

\* data_types_available
DataTypesAvailable(cmc, dc) ==
    (IF cmc.has_data THEN <<"CarModeChanged">> ELSE <<>>)
        \o (IF dc.has_data THEN <<"Door">> ELSE <<>>)

\* _calculate_daily_coverage: one entry per date of the window
calculate_daily_coverage(cmc, st, en) ==
    LET total_machines == Len(cmc.machine_coverage)
        machines_with_data_today ==
            Len(SelectSeq(cmc.machine_coverage, LAMBDA c : c.has_data))
        coverage_percentage ==
            IF total_machines > 0
            THEN Frac(machines_with_data_today * 100, total_machines)
            ELSE Zero
    IN  [k \in 1..IntMax(en.date - st.date + 1, 0) |->
            [date |-> st.date + k - 1,
             machines_with_data |-> machines_with_data_today,
             total_machines |-> total_machines,
             coverage_percentage |-> Round1(coverage_percentage)]]

\* _generate_coverage_warnings
generate_coverage_warnings(cmc, dc) ==
    LET machines_with_data == cmc.machines_with_data
        total_machines == Len(cmc.machine_coverage)
    IN  (IF FracLess(cmc.overall_coverage_percentage, Frac(70, 1))
         THEN << <<"Low overall data coverage", cmc.overall_coverage_percentage>> >>
         ELSE <<>>)
        \o (IF machines_with_data = 0
            THEN << <<"No elevator data found for the selected period">> >>
            ELSE IF machines_with_data < total_machines
            THEN << <<"elevators have no data for this period",
                      total_machines - machines_with_data, total_machines>> >>
            ELSE <<>>)
        \o (IF ~cmc.has_data
            THEN << <<"No operational data (CarModeChanged events) found">> >>
            ELSE <<>>)
        \o (IF ~dc.has_data
            THEN << <<"No door cycle data available for this period">> >>
            ELSE <<>>)

\* the DataCoverageReport of the normal return
CoverageReport(cmc, dc, targets, st, en) ==
    [total_expected_minutes |-> ExpectedMinutes(st, en),
     total_available_minutes |-> cmc.total_available_minutes,
     overall_coverage_percentage |-> cmc.overall_coverage_percentage,
     machines_total |-> Len(targets),
     machines_with_data |-> cmc.machines_with_data,
     machines_without_data |-> Len(targets) - cmc.machines_with_data,
     data_types_available |-> DataTypesAvailable(cmc, dc),
     machine_coverage |-> cmc.machine_coverage,
     daily_coverage |-> calculate_daily_coverage(cmc, st, en),
     data_gaps |-> identify_data_gaps(cmc),
     coverage_warnings |-> generate_coverage_warnings(cmc, dc)]

-----------------------------------------------------------------------------
\* A caller that asks for the coverage report of a window.  The two tasks
\* run on a pool of two workers; each one queries the store and then builds
\* its result, and catches what the query raises.

CoverageInit ==
    /\ \E S \in SUBSET KnownIds :
          /\ all_machine_ids = SortedIds(S)
          /\ \E n \in 0..MaxStoredEvents :
                stored_events \in
                    [1..n -> [MachineId : S, ModeName : ServiceModes,
                              Timestamp : EventTimestamps]]
    /\ \E n \in 0..(MaxStoredEvents - 1) :
          stored_door_events \in [1..n -> [Timestamp : EventTimestamps]]
    /\ machine_id \in {None, Some("2")}
    /\ start_time \in WindowTimes
    /\ end_time \in WindowTimes
    /\ DtLeq(start_time, end_time)
    /\ cosmos_calls = <<>>
    /\ target_machine_ids = <<>>
    /\ events_by_machine = <<>>
    /\ machine_metrics = <<>>
    /\ totals = None
    /\ result = None
    /\ car_mode_coverage = None
    /\ data_gaps = <<>>
    /\ service_pc = "idle"
    /\ car_task = "idle"
    /\ door_task = "idle"
    /\ car_events_found = <<>>
    /\ door_events_found = <<>>
    /\ task_errors = {}
    /\ door_coverage = None
    /\ coverage_report = None
    /\ coverage_pc = "start"
    /\ BuildIdle
    /\ DoorIdle
    /\ ValidatorIdle
    /\ CalculatorIdle

\* lines 97-123: the machine ids, the targets, and both tasks submitted
SubmitTasks ==
    /\ coverage_pc = "start"
    /\ target_machine_ids' = CoverageTargetIds(all_machine_ids, machine_id)
    /\ car_task' = "submitted"
    /\ door_task' = "submitted"
    /\ coverage_pc' = "joining"
    /\ UNCHANGED <<calculator_vars, uptime_vars, door_vars, validator_vars, store_vars, machine_id,
                   events_by_machine, machine_metrics, totals, result,
                   car_mode_coverage, data_gaps, service_pc, stored_door_events,
                   car_events_found, door_events_found, task_errors,
                   door_coverage, coverage_report>>

\* _analyze_car_mode_coverage, lines 200-210: the query, which may raise;
\* the except clause then returns the no-data dictionary
CarModeQuery ==
    /\ car_task = "submitted"
    /\ \/ /\ car_events_found' =
                 get_car_mode_changes(stored_events,
                                      local_datetime_to_epoch(start_time),
                                      local_datetime_to_epoch(end_time), None)
          /\ car_task' = "queried"
          /\ UNCHANGED <<car_mode_coverage, task_errors>>
       \/ /\ task_errors' = task_errors \cup {"car_mode"}
          /\ car_mode_coverage' = Some(FailedCarModeCoverage)
          /\ car_task' = "done"
          /\ UNCHANGED car_events_found
    /\ UNCHANGED <<calculator_vars, uptime_vars, door_vars, validator_vars, store_vars, machine_id,
                   target_machine_ids, events_by_machine, machine_metrics, totals,
                   result, data_gaps, service_pc, stored_door_events, door_task,
                   door_events_found, door_coverage, coverage_report, coverage_pc>>

\* _analyze_car_mode_coverage, lines 212-272: the result from the events
CarModeAnalyze ==
    /\ car_task = "queried"
    /\ car_mode_coverage' =
           Some(analyze_car_mode_coverage(car_events_found, start_time, end_time,
                                          target_machine_ids))
    /\ car_task' = "done"
    /\ UNCHANGED <<calculator_vars, uptime_vars, door_vars, validator_vars, store_vars, machine_id,
                   target_machine_ids, events_by_machine, machine_metrics, totals,
                   result, data_gaps, service_pc, stored_door_events, door_task,
                   car_events_found, door_events_found, task_errors,
                   door_coverage, coverage_report, coverage_pc>>

\* _analyze_door_coverage, lines 294-304: the query, which may raise
DoorQuery ==
    /\ door_task = "submitted"
    /\ \/ /\ door_events_found' =
                 get_door_events(stored_door_events,
                                 local_datetime_to_epoch(start_time),
                                 local_datetime_to_epoch(end_time))
          /\ door_task' = "queried"
          /\ UNCHANGED <<door_coverage, task_errors>>
       \/ /\ task_errors' = task_errors \cup {"door"}
          /\ door_coverage' = Some(FailedDoorCoverage)
          /\ door_task' = "done"
          /\ UNCHANGED door_events_found
    /\ UNCHANGED <<calculator_vars, uptime_vars, door_vars, validator_vars, store_vars, machine_id,
                   target_machine_ids, events_by_machine, machine_metrics, totals,
                   result, car_mode_coverage, data_gaps, service_pc,
                   stored_door_events, car_task, car_events_found,
                   coverage_report, coverage_pc>>

\* _analyze_door_coverage, lines 306-309
DoorAnalyze ==
    /\ door_task = "queried"
    /\ door_coverage' = Some(analyze_door_coverage(door_events_found))
    /\ door_task' = "done"
    /\ UNCHANGED <<calculator_vars, uptime_vars, door_vars, validator_vars, store_vars, machine_id,
                   target_machine_ids, events_by_machine, machine_metrics, totals,
                   result, car_mode_coverage, data_gaps, service_pc,
                   stored_door_events, car_task, car_events_found,
                   door_events_found, task_errors, coverage_report, coverage_pc>>

\* lines 121-168: both results joined, then the report
BuildReport ==
    /\ coverage_pc = "joining"
    /\ car_task = "done"
    /\ door_task = "done"
    /\ data_gaps' = identify_data_gaps(Val(car_mode_coverage))
    /\ coverage_report' =
           Some(CoverageReport(Val(car_mode_coverage), Val(door_coverage),
                               target_machine_ids, start_time, end_time))
    /\ coverage_pc' = "done"
    /\ UNCHANGED <<calculator_vars, uptime_vars, door_vars, validator_vars, store_vars, machine_id,
                   target_machine_ids, events_by_machine, machine_metrics, totals,
                   result, car_mode_coverage, service_pc, stored_door_events,
                   car_task, door_task, car_events_found, door_events_found,
                   task_errors, door_coverage>>

CoverageNext ==
    \/ SubmitTasks
    \/ CarModeQuery
    \/ CarModeAnalyze
    \/ DoorQuery
    \/ DoorAnalyze
    \/ BuildReport

CoverageSpec == CoverageInit /\ [][CoverageNext]_vars

-----------------------------------------------------------------------------
\* Properties of the coverage report

ReportWarnings == Val(coverage_report).coverage_warnings

Warned(text) == \E i \in 1..Len(ReportWarnings) : ReportWarnings[i][1] = text

\* the target machines without an event in the window
SilentTargets ==
    {target_machine_ids[i] : i \in 1..Len(target_machine_ids)}
        \ {stored_events[k].MachineId : k \in
              {j \in 1..Len(stored_events) :
                  /\ stored_events[j].Timestamp >= local_datetime_to_epoch(start_time)
                  /\ stored_events[j].Timestamp <= local_datetime_to_epoch(end_time)}}

\* C17 as stated: the low-coverage warning is given exactly below 70%, a
\* warning about the silent machines whenever a target machine has no
\* events, and the critical warning exactly when no target machine has data.
C17_WarningsFollowCoverage ==
    (coverage_pc = "done" /\ "car_mode" \notin task_errors) =>
        /\ Warned("Low overall data coverage")
              <=> FracLess(Val(coverage_report).overall_coverage_percentage, Frac(70, 1))
        /\ SilentTargets # {} => Warned("elevators have no data for this period")
        /\ Warned("No elevator data found for the selected period")
              <=> (Val(coverage_report).machines_with_data = 0)

\* what each task returns when its query succeeds
CarModeWithoutFailure ==
    analyze_car_mode_coverage(stored_events, start_time, end_time, target_machine_ids)

DoorWithoutFailure ==
    analyze_door_coverage(
        get_door_events(stored_door_events, local_datetime_to_epoch(start_time),
                        local_datetime_to_epoch(end_time)))

ReportTypes ==
    {Val(coverage_report).data_types_available[i] :
        i \in 1..Len(Val(coverage_report).data_types_available)}

\* C18: under every interleaving of the two tasks the report is built only
\* after both are done; a task leaves the other's result alone; a task that
\* failed has its data type reported unavailable, and the other task's part
\* of the report is what it is without the failure, so the report depends
\* on the inputs and on which task failed, not on the order of the tasks.
C18_TasksAreIndependent ==
    /\ coverage_report # None => (car_task = "done" /\ door_task = "done")
    /\ (car_task = "done" /\ "car_mode" \notin task_errors)
          => car_mode_coverage = Some(CarModeWithoutFailure)
    /\ (door_task = "done" /\ "door" \notin task_errors)
          => door_coverage = Some(DoorWithoutFailure)
    /\ car_task \in {"submitted", "queried"} => car_mode_coverage = None
    /\ door_task \in {"submitted", "queried"} => door_coverage = None
    /\ coverage_pc = "done" =>
          LET rep == Val(coverage_report)
          IN  /\ "car_mode" \in task_errors =>
                    /\ "CarModeChanged" \notin ReportTypes
                    /\ ~Val(car_mode_coverage).has_data
              /\ "door" \in task_errors =>
                    /\ "Door" \notin ReportTypes
                    /\ ~Val(door_coverage).has_data
              /\ "car_mode" \notin task_errors =>
                    /\ rep.machine_coverage = CarModeWithoutFailure.machine_coverage
                    /\ rep.overall_coverage_percentage
                           = CarModeWithoutFailure.overall_coverage_percentage
                    /\ rep.total_available_minutes
                           = CarModeWithoutFailure.total_available_minutes
                    /\ rep.machines_with_data = CarModeWithoutFailure.machines_with_data
                    /\ "CarModeChanged" \in ReportTypes <=> CarModeWithoutFailure.has_data
              /\ "door" \notin task_errors =>
                    ("Door" \in ReportTypes <=> DoorWithoutFailure.has_data)

\* the car-mode query failed while the door task found events: only the
\* door data is available
C18_Witness ==
    /\ coverage_pc = "done"
    /\ task_errors = {"car_mode"}
    /\ CarModeWithoutFailure.has_data
    /\ Val(coverage_report).data_types_available = <<"Door">>
    /\ Val(coverage_report).machine_coverage = <<>>

-----------------------------------------------------------------------------
\* Properties of the daily availability

MinutesOfDayInWindow(d) ==
    LET from == DtMax(DateTime(d, 0), start_time)
        to == DtMin(DateTime(d + 1, 0), end_time)
    IN  IF DtLess(from, to) THEN DtDiffMs(to, from) \div MsPerMinute ELSE 0

\* C20 as stated: one entry per calendar day from the start date to the end
\* date; an interior day expects exactly 1440 minutes, the first and the
\* last day exactly their minutes inside the window.
C20_ExpectedMinutesPerDay ==
    (pc = "daily" /\ DtLeq(start_time, end_time)) =>
        /\ Len(daily_data) = end_time.date - start_time.date + 1
        /\ \A k \in 1..Len(daily_data) :
              /\ daily_data[k].date = start_time.date + k - 1
              /\ (1 < k /\ k < Len(daily_data)) =>
                     daily_data[k].expected_hours = Frac(1440, 60)
              /\ (k = 1 \/ k = Len(daily_data)) =>
                     daily_data[k].expected_hours
                         = Frac(MinutesOfDayInWindow(daily_data[k].date), 60)

-----------------------------------------------------------------------------
\* Properties of the installation summary

\* the uptime call returned a result that is not the validation error
UptimeResultReturned ==
    /\ service_pc = "returned"
    /\ date_validation # None
    /\ date_validation.is_valid

ReturnedMetrics == Val(result).machine_metrics
ReturnedSummary == Val(result).installation_summary

\* the sums of the per-machine values of the returned result
SumOfUptime == FracSum([i \in 1..Len(ReturnedMetrics) |-> ReturnedMetrics[i].uptime_minutes])
SumOfDowntime == FracSum([i \in 1..Len(ReturnedMetrics) |-> ReturnedMetrics[i].downtime_minutes])
SumOfTotal == FracSum([i \in 1..Len(ReturnedMetrics) |-> ReturnedMetrics[i].total_minutes])

\* the share of a sum in the summed total, in percent
ShareOfTotal(x) ==
    IF SumOfTotal = Zero THEN Zero
    ELSE Frac(x.num * SumOfTotal.den * 100, x.den * SumOfTotal.num)

\* C23: the summary's minutes are the sums of the per-machine minutes over all
\* target machines, its percentages the shares of those sums in the summed
\* total, with + without = total_elevators = number of entries, and a target
\* machine with no event in the window counts as without data and adds 0.
C23_SummaryIsSumOfMachines ==
    UptimeResultReturned =>
        /\ {ReturnedMetrics[i].machine_id : i \in 1..Len(ReturnedMetrics)} = UptimeTargets
        /\ Len(ReturnedMetrics) = Cardinality(UptimeTargets)
        /\ ReturnedSummary.uptime_minutes = SumOfUptime
        /\ ReturnedSummary.downtime_minutes = SumOfDowntime
        /\ ReturnedSummary.total_minutes = SumOfTotal
        /\ ReturnedSummary.uptime_percentage = ShareOfTotal(SumOfUptime)
        /\ ReturnedSummary.downtime_percentage = ShareOfTotal(SumOfDowntime)
        /\ ReturnedSummary.elevators_with_data + ReturnedSummary.elevators_without_data
               = ReturnedSummary.total_elevators
        /\ ReturnedSummary.total_elevators = Len(ReturnedMetrics)
        /\ ReturnedSummary.elevators_without_data
               = Cardinality({mid \in UptimeTargets : EventsInWindow(mid) = <<>>})
        /\ \A i \in 1..Len(ReturnedMetrics) :
              EventsInWindow(ReturnedMetrics[i].machine_id) = <<>> =>
                  /\ ReturnedMetrics[i].uptime_minutes = Zero
                  /\ ReturnedMetrics[i].downtime_minutes = Zero
                  /\ ReturnedMetrics[i].total_minutes = Zero

\* two machines, one with downtime in the window and one silent
C23_Witness ==
    /\ UptimeResultReturned
    /\ Len(ReturnedMetrics) = 2
    /\ ReturnedSummary.elevators_with_data = 1
    /\ ReturnedSummary.elevators_without_data = 1
    /\ FracLess(Zero, ReturnedSummary.downtime_minutes)
    /\ FracLess(Zero, ReturnedSummary.downtime_percentage)

-----------------------------------------------------------------------------
\* Presentation order

\* machine ids in numeric-aware ascending order
NumericAwareOrder == <<"2", "10", "E1">>
RankOf(mid) == CHOOSE k \in 1..Len(NumericAwareOrder) : NumericAwareOrder[k] = mid

\* C25 as stated: for every set of machine ids the uptime call orders
\* machine_metrics by machine id, numeric-aware ascending ("2" before "10"),
\* and producing that order never fails.
C25_NumericAwareOrderNeverFails ==
    UptimeCallOver =>
        /\ result # Some([raised |-> "ValueError"])
        /\ service_pc = "returned" =>
              \A i, j \in 1..Len(Val(result).machine_metrics) :
                  i < j => RankOf(Val(result).machine_metrics[i].machine_id)
                               < RankOf(Val(result).machine_metrics[j].machine_id)

-----------------------------------------------------------------------------
\* Range of the data coverage percentages

\* C29 as stated: every data_coverage_percentage of the returned result, per
\* machine and in the installation summary, lies between 0 and 100.
C29_DataCoverageWithinHundred ==
    UptimeResultReturned =>
        /\ \A i \in 1..Len(ReturnedMetrics) :
              /\ FracLeq(Zero, ReturnedMetrics[i].data_coverage_percentage)
              /\ FracLeq(ReturnedMetrics[i].data_coverage_percentage, Hundred)
        /\ FracLeq(Zero, ReturnedSummary.data_coverage_percentage)
        /\ FracLeq(ReturnedSummary.data_coverage_percentage, Hundred)
        /\ FracLeq(ReturnedSummary.total_minutes, ReturnedSummary.expected_total_minutes)

-----------------------------------------------------------------------------
\* Order of the supplied events

\* the ways to reorder a list of n elements
Reorderings(n) == {f \in [1..n -> 1..n] : \A i, j \in 1..n : f[i] = f[j] => i = j}
Reordered(evs, f) == [i \in 1..Len(evs) |-> evs[f[i]]]

\* f keeps events that share a timestamp in the order they were supplied in
KeepsTies(evs, f) ==
    \A i, j \in 1..Len(evs) :
        (i < j /\ evs[f[i]].Timestamp = evs[f[j]].Timestamp) => f[i] < f[j]

\* C28 as stated: build_intervals returns the same intervals for every
\* permutation of the event list, ties in timestamp included.
C28_AnyOrderSameIntervals ==
    pc = "built" =>
        \A f \in Reorderings(Len(events)) :
            build_intervals(Reordered(events, f), start_time, end_time, MachineIdArg)
                = intervals

\* C28, amended: build_intervals returns the same intervals for every
\* permutation that keeps the events sharing a timestamp in their supplied
\* order, so for every permutation of a list with distinct timestamps.
C28_SameIntervalsUpToTies ==
    pc = "built" =>
        \A f \in Reorderings(Len(events)) :
            KeepsTies(events, f) =>
                build_intervals(Reordered(events, f), start_time, end_time, MachineIdArg)
                    = intervals

\* three events supplied latest first, all inside the window
C28_Witness ==
    /\ pc = "built"
    /\ Len(events) = 3
    /\ events[1].Timestamp > events[2].Timestamp
    /\ events[2].Timestamp > events[3].Timestamp
    /\ events[1].ModeName # events[3].ModeName
    /\ Len(intervals) = 3

-----------------------------------------------------------------------------
\* Properties of the door batches

\* the events of the list that belong to group k, in the order of the list
OwnEvents(k) == SelectSeq(door_events, LAMBDA e : Groupable(e) /\ GroupKey(e) = k)

\* what the computation returns for the events of group k alone
Alone(k) ==
    LET g == GroupEvents(OwnEvents(k), Len(OwnEvents(k)))
    IN  ProcessGroups(g, Len(g))

\* the part of a result dictionary that belongs to the door of group k
OfDoor(counts, k) ==
    LET keys == {x \in DOMAIN counts :
                    x[1] = elevator_key(k[1]) /\ x[2] = door_key(k[2], k[3])}
    IN  [x \in keys |-> counts[x]]

DoorKeysSeen == {GroupKey(door_events[i]) :
                    i \in {j \in 1..Len(door_events) : Groupable(door_events[j])}}

\* C27: the counts and samples of each (MachineId, Side, Deck) group computed
\* from the whole list equal those computed from the group's events alone,
\* and each group holds its events in the order of the list.
C27_GroupsAreIndependent ==
    door_pc = "done" =>
        /\ {grouped_events[i].key : i \in 1..Len(grouped_events)} = DoorKeysSeen
        /\ \A i \in 1..Len(grouped_events) :
              LET k == grouped_events[i].key
                  tk == timing_key(elevator_key(k[1]), door_key(k[2], k[3]))
              IN  /\ grouped_events[i].list
                         = [j \in 1..Len(OwnEvents(k)) |-> GroupedEntry(OwnEvents(k)[j])]
                  /\ OfDoor(cycle_counts, k) = Alone(k).cycle_counts
                  /\ OfDoor(reversal_counts, k) = Alone(k).reversal_counts
                  /\ TimingOf(timing_data, tk) = TimingOf(Alone(k).timing_data, tk)

\* a whole cycle of the front door with an event of the rear door inside it
C27_Witness ==
    /\ door_pc = "done"
    /\ Len(grouped_events) = 2
    /\ Len(door_events) = 5
    /\ door_events[1].Side = "front"
    /\ door_events[3].Side = "rear"
    /\ door_events[5].Side = "front"
    /\ TotalCount(cycle_counts, elevator_key(Some(1)), door_key("front", "lower")) = 1


\* an event without a timestamp or without a state
MalformedDoorEvent(e) == e.Timestamp = None \/ e.State \in {"", NullState}

\* what the computation returns for the batch without its malformed events
WithoutMalformed ==
    LET kept == SelectSeq(door_events, LAMBDA e : ~MalformedDoorEvent(e))
        g == GroupEvents(kept, Len(kept))
    IN  ProcessGroups(g, Len(g))

\* C24 as stated, for the door-cycle computation: a batch with a malformed
\* event gives the cycle and reversal counts of the batch without that event.
C24_MalformedEventIsSkipped ==
    door_pc = "done" =>
        /\ cycle_counts = WithoutMalformed.cycle_counts
        /\ reversal_counts = WithoutMalformed.reversal_counts

-----------------------------------------------------------------------------
\* The uptime calculator tool: src/tools/uptime_calculator.py

Calculator_UPTIME_MODES ==
    {"ANS", "ATT", "CHC", "CTL", "DCP", "DEF", "DHB", "DTC", "DTO",
     "EFO", "EFS", "EHS", "EPC", "EPR", "EPW", "IDL", "INI", "INS",
     "ISC", "LNS", "NOR", "PKS", "PRK", "RCY", "REC", "SRO", "STP"}

\* variant: NAV is left out of the set
Calculator_DOWNTIME_MODES_WithoutNAV == {"COR", "DBF", "DLF", "ESB", "HAD", "HBP"}

Calculator_DOWNTIME_MODES == {"COR", "DBF", "DLF", "ESB", "HAD", "HBP", "NAV"}

\* get_mode_status of the tool
calculator_get_mode_status(mode_name) ==
    IF mode_name \in Calculator_UPTIME_MODES THEN "UPTIME"
    ELSE IF mode_name \in Calculator_DOWNTIME_MODES THEN "DOWNTIME"
    ELSE "UNKNOWN"

\* the "for event in events" loop of _build_intervals after n events; a mode
\* of None or "" is false in "if current_mode"
RECURSIVE IntervalsBetweenEvents(_, _, _, _)
IntervalsBetweenEvents(evs, n, prior, st) ==
    IF n = 0
    THEN [current_mode |-> prior, current_time |-> st, intervals |-> <<>>]
    ELSE LET b == IntervalsBetweenEvents(evs, n - 1, prior, st)
             event_time == evs[n].Timestamp
         IN  [current_mode |-> evs[n].ModeName,
              current_time |-> event_time,
              intervals |->
                  IF b.current_mode # "" /\ b.current_time < event_time
                  THEN Append(b.intervals,
                              [start |-> b.current_time, end |-> event_time,
                               mode |-> b.current_mode,
                               status |-> calculator_get_mode_status(b.current_mode)])
                  ELSE b.intervals]

\* _build_intervals
calculator_build_intervals(evs, prior, st, en) ==
    IF evs # <<>>
    THEN LET b == IntervalsBetweenEvents(evs, Len(evs), prior, st)
         IN  IF b.current_mode # "" /\ b.current_time < en
             THEN Append(b.intervals,
                         [start |-> b.current_time, end |-> en,
                          mode |-> b.current_mode,
                          status |-> calculator_get_mode_status(b.current_mode)])
             ELSE b.intervals
    ELSE IF prior # ""
    THEN << [start |-> st, end |-> en, mode |-> prior,
             status |-> calculator_get_mode_status(prior)] >>
    ELSE <<>>

\* _calculate_durations: the milliseconds of each status, in minutes
calculate_durations(ivs) ==
    LET mins(S) ==
            FracSum([i \in 1..Len(ivs) |->
                        IF ivs[i].status \in S
                        THEN Frac(ivs[i].end - ivs[i].start, MsPerMinute)
                        ELSE Zero])
    IN  [uptime_mins |-> mins({"UPTIME"}),
         downtime_mins |-> mins({"DOWNTIME"}),
         excluded_mins |-> mins({"UNKNOWN"})]

\* _safe_percentage: 0.0 for a denominator of 0, else the percentage rounded
\* to two decimals (a tie to the even neighbour)
safe_percentage(numerator, denominator) ==
    IF denominator = Zero THEN Zero
    ELSE LET x == FracMul(FracDiv(numerator, denominator), Hundred)
             q == (x.num * 100) \div x.den
             r == (x.num * 100) % x.den
             up == 2 * r > x.den \/ (2 * r = x.den /\ q % 2 = 1)
         IN  Frac(IF up THEN q + 1 ELSE q, 100)

\* the events of one machine as compute_uptime_downtime collects them, a
\* missing ModeName written "", and a window between two ticks
CalculatorInit ==
    /\ \/ /\ \E n \in 0..MaxStoredEvents :
                events_for_machine \in
                    [1..n -> [Timestamp : EventTimestamps,
                              ModeName : {"NOR", "COR", "XYZ", ""}]]
          /\ prior_mode \in {"NOR", "COR", "XYZ", ""}
       \/ /\ events_for_machine = <<>>
          /\ prior_mode \in UPTIME_MODES \cup DOWNTIME_MODES \cup Calculator_UPTIME_MODES
                            \cup Calculator_DOWNTIME_MODES \cup {"nor"}
    /\ start_ms \in {k * TickMs : k \in 0..(MaxTick + 1)}
    /\ end_ms \in {k * TickMs : k \in 0..(MaxTick + 1)}
    /\ calculator_intervals = <<>>
    /\ machine_result = None
    /\ calculator_pc = "start"
    /\ UptimeIdle
    /\ DoorIdle
    /\ ValidatorIdle
    /\ ServiceIdle
    /\ CoverageIdle

\* lines 164-171: the sort and _build_intervals
CalculatorBuildIntervals ==
    /\ calculator_pc = "start"
    /\ events_for_machine' = SortByTimestamp(events_for_machine)
    /\ calculator_intervals' =
           calculator_build_intervals(SortByTimestamp(events_for_machine),
                                      prior_mode, start_ms, end_ms)
    /\ calculator_pc' = "built"
    /\ UNCHANGED <<prior_mode, start_ms, end_ms, machine_result>>
    /\ UNCHANGED <<uptime_vars, door_vars, validator_vars, service_vars, coverage_vars>>

\* lines 173-184: _calculate_durations and the machine's entry
CalculatorMachineResult ==
    /\ calculator_pc = "built"
    /\ LET d == calculate_durations(calculator_intervals)
           tracked == FracAdd(d.uptime_mins, d.downtime_mins)
       IN  machine_result' =
               Some([uptime_minutes |-> d.uptime_mins,
                     downtime_minutes |-> d.downtime_mins,
                     excluded_minutes |-> d.excluded_mins,
                     uptime_percent |-> safe_percentage(d.uptime_mins, tracked),
                     downtime_percent |-> safe_percentage(d.downtime_mins, tracked)])
    /\ calculator_pc' = "done"
    /\ UNCHANGED <<events_for_machine, prior_mode, start_ms, end_ms, calculator_intervals>>
    /\ UNCHANGED <<uptime_vars, door_vars, validator_vars, service_vars, coverage_vars>>

CalculatorSpec ==
    CalculatorInit /\ [][CalculatorBuildIntervals \/ CalculatorMachineResult]_vars

-----------------------------------------------------------------------------
\* Properties of the classifier and of the calculator's intervals

\* the class a status string of either copy names
ClassOf(status) ==
    CASE status \in {"uptime", "UPTIME"} -> "operational"
      [] status \in {"downtime", "DOWNTIME"} -> "non-operational"
      [] OTHER -> "unclassified"

\* C26: the sets of 27 operational and 7 non-operational codes are disjoint,
\* get_mode_status puts a code in the class of the set that holds it and in
\* the unknown class otherwise, and both copies of the classifier put the
\* mode of every interval in the same class.
C26_ClassifierCopiesAgree ==
    /\ UPTIME_MODES \cap DOWNTIME_MODES = {}
    /\ Cardinality(UPTIME_MODES) = 27
    /\ Cardinality(DOWNTIME_MODES) = 7
    /\ \A i \in 1..Len(calculator_intervals) :
          LET mode == calculator_intervals[i].mode
              status == get_mode_status(mode)
          IN  /\ status = "uptime" <=> mode \in UPTIME_MODES
              /\ status = "downtime" <=> mode \in DOWNTIME_MODES
              /\ status = "unknown" <=> mode \notin UPTIME_MODES \cup DOWNTIME_MODES
              /\ ClassOf(calculator_intervals[i].status) = ClassOf(status)

\* an interval of mode NAV, which both copies hold to be downtime
C26_Witness ==
    /\ calculator_pc = "built"
    /\ Len(calculator_intervals) = 1
    /\ calculator_intervals[1].mode = "NAV"
    /\ calculator_intervals[1].status = "DOWNTIME"
    /\ get_mode_status("NAV") = "downtime"


\* the prior status is known and every event lies inside the window
PriorKnownEventsInside ==
    /\ calculator_pc \in {"built", "done"}
    /\ prior_mode # ""
    /\ \A i \in 1..Len(events_for_machine) :
          /\ start_ms <= events_for_machine[i].Timestamp
          /\ events_for_machine[i].Timestamp <= end_ms

\* C30 as stated: with a known prior status and all events inside the window
\* the intervals tile the window: the first starts at start_ms with the prior
\* mode, each ends where the next starts, the last ends at end_ms and the
\* durations sum to end_ms - start_ms; with no events the result is the
\* single interval [start_ms, end_ms) of the prior mode.
C30_PriorModeTilesWindow ==
    PriorKnownEventsInside =>
        IF events_for_machine = <<>>
        THEN calculator_intervals =
                 << [start |-> start_ms, end |-> end_ms, mode |-> prior_mode,
                     status |-> calculator_get_mode_status(prior_mode)] >>
        ELSE /\ calculator_intervals # <<>>
             /\ calculator_intervals[1].start = start_ms
             /\ calculator_intervals[1].mode = prior_mode
             /\ \A i \in 1..(Len(calculator_intervals) - 1) :
                   calculator_intervals[i].end = calculator_intervals[i + 1].start
             /\ calculator_intervals[Len(calculator_intervals)].end = end_ms
             /\ SumOver([i \in 1..Len(calculator_intervals) |->
                            calculator_intervals[i].end - calculator_intervals[i].start],
                        1..Len(calculator_intervals)) = end_ms - start_ms

-----------------------------------------------------------------------------
\* The analytics core as a whole: any one of the callers above

AnalyticsSpec ==
    /\ Init \/ DoorInit \/ ServiceInit \/ CalculatorInit
    /\ [][Next \/ DoorNext \/ ServiceNext
            \/ CalculatorBuildIntervals \/ CalculatorMachineResult]_vars

\* a number that came out of no division by zero
Defined(x) == x.den > 0

\* a percentage or average that is a number, and 0 when its denominator is 0
Guarded(x, denominator) == Defined(x) /\ (denominator = Zero => x = Zero)

\* C21: every percentage and average of the analytics core is a number, and
\* it is 0 when its denominator (total minutes, expected minutes, window
\* length, number of machines, number of samples) is 0.
C21_DivisionsAreGuarded ==
    /\ pc \in {"done", "daily"} =>
          /\ Guarded(metrics.uptime_percentage, metrics.total_minutes)
          /\ Guarded(metrics.downtime_percentage, metrics.total_minutes)
    /\ pc = "daily" =>
          \A k \in 1..Len(daily_data) :
              Guarded(daily_data[k].availability_percentage, daily_data[k].expected_hours)
    /\ UptimeResultReturned =>
          /\ Guarded(ReturnedSummary.uptime_percentage, ReturnedSummary.total_minutes)
          /\ Guarded(ReturnedSummary.downtime_percentage, ReturnedSummary.total_minutes)
          /\ Guarded(ReturnedSummary.data_coverage_percentage,
                     ReturnedSummary.expected_total_minutes)
          /\ \A i \in 1..Len(ReturnedMetrics) :
                /\ Guarded(ReturnedMetrics[i].uptime_percentage,
                           ReturnedMetrics[i].total_minutes)
                /\ Guarded(ReturnedMetrics[i].downtime_percentage,
                           ReturnedMetrics[i].total_minutes)
                /\ Guarded(ReturnedMetrics[i].data_coverage_percentage,
                           ReturnedSummary.expected_total_minutes)
    /\ car_mode_coverage # None =>
          LET c == Val(car_mode_coverage)
              window == ExpectedMinutes(start_time, end_time)
          IN  /\ Guarded(c.overall_coverage_percentage,
                         FracMul(window, Frac(Len(c.machine_coverage), 1)))
              /\ \A i \in 1..Len(c.machine_coverage) :
                    /\ Guarded(c.machine_coverage[i].coverage_minutes, window)
                    /\ Guarded(c.machine_coverage[i].coverage_percentage, window)
    /\ door_pc = "done" =>
          \A k \in DOMAIN timing_stats :
              LET s == timing_stats[k]
                  n == s.sample_counts
              IN  /\ Guarded(s.opened_duration_seconds.avg, Frac(n.opened_samples, 1))
                  /\ Guarded(s.closing_to_closed_duration_seconds.avg,
                             Frac(n.closing_to_closed_samples, 1))
                  /\ Guarded(s.closed_to_opening_duration_seconds.avg,
                             Frac(n.closed_to_opening_samples, 1))
    /\ calculator_pc = "done" =>
          LET m == Val(machine_result)
              tracked == FracAdd(m.uptime_minutes, m.downtime_minutes)
          IN  /\ Guarded(m.uptime_percent, tracked)
              /\ Guarded(m.downtime_percent, tracked)

\* events that all lie after the window: no interval, a total of 0 minutes
C21_Witness ==
    /\ pc = "done"
    /\ events # <<>>
    /\ intervals = <<>>
    /\ metrics.total_minutes = Zero
    /\ metrics.uptime_percentage = Zero
    /\ metrics.downtime_percentage = Zero

====
